---- MODULE Spec2Model ----
(***************************************************************************)
(* A model of the language-learning game: the energy system, the user's    *)
(* progress (XP, level, calendar-day streak), the achievement tracker, the *)
(* combo system, the three question validators, the skill paths of the     *)
(* LessonManager and the game that drives them.  Each class of the         *)
(* source is one group of variables with one action per method; every      *)
(* group has its own specification, so that a property of one class is     *)
(* checked on the behaviours of that class alone.                          *)
(***************************************************************************)
EXTENDS Integers, Sequences, FiniteSets, TLC

VARIABLES
  now,            \* the wall clock, what Date.now() returns (ms)
  maxEnergy,      \* EnergySystem.maxEnergy
  currentEnergy,  \* EnergySystem.currentEnergy
  lastUpdate,     \* EnergySystem.lastUpdate
  eop,            \* the last EnergySystem call: its name, argument and pre-state
  tz,             \* the local time zone: which day is not 24 hours long, and its length
  xp,             \* UserProgress.xp
  awarded,        \* history: the sum of the amounts of the addXP calls that returned
  level,          \* UserProgress.level
  streak,         \* UserProgress.streak
  lastActivityDate,  \* UserProgress.lastActivityDate (ms), NoDate for null
  completedLessons,  \* UserProgress.completedLessons, in insertion order
  pop,            \* the last UserProgress call: name, argument, pre-state, outcome
  unlocked,       \* Achievement.unlocked, by achievement id
  unlockedAt,     \* Achievement.unlockedAt, by achievement id, Null for null
  firstUnlock,    \* history: the clock when the id was first seen unlocked
  aop,            \* the last achievement call: name, argument and pre-state
  str1,           \* the first argument of the last calculateSimilarity call
  str2,           \* its second argument
  similarity,     \* its result, a fraction [num, den]; NoFraction before any call
  question,       \* the question object: its variant and constructor arguments
  answer,         \* the answer of the last checkAnswer call
  isFirstTry,     \* its isFirstTry argument, Absent when left out
  result,         \* the QuestionResult it returned; NoResult before any call
  currentCombo,   \* ComboSystem.currentCombo
  highestCombo,   \* ComboSystem.highestCombo
  answered,       \* history: the isCorrect arguments of the recordAnswer calls, in order
  cop,            \* the last ComboSystem call: name, argument, pre-state, result
  lessons,        \* LessonManager.lessons: the ids of the lessons it holds
  skillPaths,     \* LessonManager.skillPaths, in insertion order: id and lesson ids
  lop,            \* the last SkillPath / LessonManager call: arguments and result
  questionResults,   \* Lesson.questionResults, by lesson id
  lessonCompleted,   \* Lesson.completed, by lesson id
  correctOnce,    \* history: the <<lesson id, index>> answered correctly so far
  reported,       \* history: the names returned in newAchievements so far, in order
  gop             \* the last answerQuestion call: lesson, index and outcome

energyVars == <<maxEnergy, currentEnergy, lastUpdate, eop>>

progressVars ==
  <<tz, xp, awarded, level, streak, lastActivityDate, completedLessons, pop>>

achievementVars == <<unlocked, unlockedAt, firstUnlock, aop>>

similarityVars == <<str1, str2, similarity>>

questionVars == <<question, answer, isFirstTry, result>>

comboVars == <<currentCombo, highestCombo, answered, cop>>

lessonVars == <<lessons, skillPaths, lop>>

gameVars == <<questionResults, lessonCompleted, correctOnce, reported, gop>>

vars ==
  <<now, energyVars, progressVars, achievementVars, similarityVars, questionVars,
    comboVars,
    lessonVars, gameVars>>

Min(a, b) == IF a <= b THEN a ELSE b

Max(a, b) == IF a >= b THEN a ELSE b

(***************************************************************************)
(* Time.  Timestamps are milliseconds.  The clock and the explicit         *)
(* timestamps handed to regenerate are drawn from a grid of half hours,    *)
(* each with the millisecond just before it, and one far point.            *)
(***************************************************************************)
MsPerHour == 60 * 60 * 1000

MaxHalfHours == 4

FarHours == 10

Times ==
  { t \in { k * (MsPerHour \div 2) - e : k \in 0..MaxHalfHours, e \in {0, 1} } : t >= 0 }
    \cup { FarHours * MsPerHour }

\* The wall clock moves forward to t between calls.
TickTo(t) ==
  /\ t > now
  /\ now' = t
  /\ UNCHANGED <<energyVars, progressVars, achievementVars, similarityVars, questionVars,
                 comboVars,
                 lessonVars, gameVars>>

Tick == \E t \in Times : TickTo(t)

(***************************************************************************)
(* EnergySystem                                                            *)
(***************************************************************************)
MaxMaxEnergy == 5

NoCall == [op |-> "new", arg |-> 0, preEnergy |-> 0, preUpdate |-> 0]

Call(name, arg) ==
  [op |-> name, arg |-> arg, preEnergy |-> currentEnergy, preUpdate |-> lastUpdate]

\* constructor(maxEnergy)
EnergyInit ==
  /\ maxEnergy \in 0..MaxMaxEnergy
  /\ currentEnergy = maxEnergy
  /\ lastUpdate = now
  /\ eop = NoCall

\* Mutant: the energy is never found empty.
hasEnergy_Always == TRUE

\* hasEnergy()
hasEnergy == currentEnergy > 0

\* What an EnergySystem call leaves alone outside the EnergySystem.
EnergyFrame ==
  UNCHANGED <<now, maxEnergy, progressVars, achievementVars, similarityVars,
              questionVars, comboVars,
              lessonVars, gameVars>>

\* Mutant: an incorrect answer takes the energy without stamping lastUpdate.
EnergyRecordAnswer_NoStamp(isCorrect) ==
  /\ IF ~isCorrect /\ currentEnergy > 0
       THEN /\ currentEnergy' = currentEnergy - 1
            /\ UNCHANGED lastUpdate
       ELSE UNCHANGED <<currentEnergy, lastUpdate>>
  /\ eop' = Call("recordAnswer", IF isCorrect THEN 1 ELSE 0)
  /\ EnergyFrame

\* recordAnswer(isCorrect)
EnergyRecordAnswer(isCorrect) ==
  /\ IF ~isCorrect /\ currentEnergy > 0
       THEN /\ currentEnergy' = currentEnergy - 1
            /\ lastUpdate' = now
       ELSE UNCHANGED <<currentEnergy, lastUpdate>>
  /\ eop' = Call("recordAnswer", IF isCorrect THEN 1 ELSE 0)
  /\ EnergyFrame

\* Mutant: the elapsed hours rounded up instead of down.
energyToRegenerate_Ceil(currentTime) ==
  (currentTime - lastUpdate + MsPerHour - 1) \div MsPerHour

\* Math.floor((currentTime - lastUpdate) / (60 * 60 * 1000))
energyToRegenerate(currentTime) == (currentTime - lastUpdate) \div MsPerHour

\* Mutant: the sum without its cap.
regenerated_NoCap(n) == currentEnergy + n

\* Math.min(this.maxEnergy, this.currentEnergy + energyToRegenerate)
regenerated(n) == Min(maxEnergy, currentEnergy + n)

\* Mutant: lastUpdate moves to the last whole-hour boundary, so that the
\* rest of the hour still counts.
Regenerate_KeepRemainder(currentTime) ==
  /\ IF currentEnergy >= maxEnergy
       THEN UNCHANGED <<currentEnergy, lastUpdate>>
       ELSE IF energyToRegenerate(currentTime) > 0
              THEN /\ currentEnergy' = regenerated(energyToRegenerate(currentTime))
                   /\ lastUpdate' = lastUpdate + energyToRegenerate(currentTime) * MsPerHour
              ELSE UNCHANGED <<currentEnergy, lastUpdate>>
  /\ eop' = Call("regenerate", currentTime)
  /\ EnergyFrame

\* regenerate(currentTime)
Regenerate(currentTime) ==
  /\ IF currentEnergy >= maxEnergy
       THEN UNCHANGED <<currentEnergy, lastUpdate>>
       ELSE IF energyToRegenerate(currentTime) > 0
              THEN /\ currentEnergy' = regenerated(energyToRegenerate(currentTime))
                   /\ lastUpdate' = currentTime
              ELSE UNCHANGED <<currentEnergy, lastUpdate>>
  /\ eop' = Call("regenerate", currentTime)
  /\ EnergyFrame

\* refill()
Refill ==
  /\ currentEnergy' = maxEnergy
  /\ lastUpdate' = now
  /\ eop' = Call("refill", 0)
  /\ EnergyFrame

(***************************************************************************)
(* Local time.  A Date is its getTime() value in milliseconds, counted     *)
(* from local midnight of day 0.  The time zone decides how long each      *)
(* local day is: 24 hours, except for at most one day of 23 hours (clocks  *)
(* forward) or 25 hours (clocks back).  new Date(y, m, d) is local         *)
(* midnight of that calendar day.                                          *)
(***************************************************************************)
MaxDay == 3

Days == 0..MaxDay

NoDate == 0 - 1

TimeZones ==
  { [day |-> 0 - 1, hours |-> 24] }
    \cup { [day |-> d, hours |-> h] : d \in Days, h \in {23, 25} }

HoursOfDay(d) == IF d = tz.day THEN tz.hours ELSE 24

RECURSIVE Midnight(_)
\* getTime() of local midnight at the start of calendar day d
Midnight(d) == IF d = 0 THEN 0 ELSE Midnight(d - 1) + HoursOfDay(d - 1) * MsPerHour

\* The calendar day (getFullYear, getMonth, getDate) a timestamp falls in.
DayOf(t) == CHOOSE d \in Days : Midnight(d) <= t /\ t < Midnight(d + 1)

\* The Date arguments: the first, a middle and the last millisecond of a day.
DatesOfDay(d) == { Midnight(d), Midnight(d) + 12 * MsPerHour, Midnight(d + 1) - 1 }

Dates == UNION { DatesOfDay(d) : d \in Days }

(***************************************************************************)
(* UserProgress                                                            *)
(***************************************************************************)
XP_THRESHOLDS == <<0, 100, 250, 500, 1000, 2000, 4000, 8000>>

MaxXP == 8050

LessonIds == {"greetings-1", "phrases-1"}

Range(f) == { f[i] : i \in DOMAIN f }

NoProgressCall ==
  [op |-> "new", arg |-> 0, threw |-> FALSE, ret |-> FALSE,
   preXp |-> 0, preLevel |-> 1, preStreak |-> 0, preLast |-> NoDate,
   preLessons |-> <<>>]

ProgressCall(name, arg, threw, ret) ==
  [op |-> name, arg |-> arg, threw |-> threw, ret |-> ret,
   preXp |-> xp, preLevel |-> level, preStreak |-> streak,
   preLast |-> lastActivityDate, preLessons |-> completedLessons]

\* constructor(userId)
ProgressInit ==
  /\ xp = 0
  /\ awarded = 0
  /\ level = 1
  /\ streak = 0
  /\ lastActivityDate = NoDate
  /\ completedLessons = <<>>
  /\ pop = NoProgressCall

\* What a UserProgress call leaves alone outside the UserProgress.
ProgressFrame ==
  UNCHANGED <<now, energyVars, tz, achievementVars, similarityVars, questionVars,
              comboVars,
              lessonVars, gameVars>>

RECURSIVE levelScan(_, _, _)
\* The loop of updateLevel from index i (1-based here) down: the first
\* threshold not above x decides; the level stays when none is.
levelScan(x, i, old) ==
  IF i < 1 THEN old
  ELSE IF x >= XP_THRESHOLDS[i] THEN i
  ELSE levelScan(x, i - 1, old)

RECURSIVE levelScanStrict(_, _, _)
levelScanStrict(x, i, old) ==
  IF i < 1 THEN old
  ELSE IF x > XP_THRESHOLDS[i] THEN i
  ELSE levelScanStrict(x, i - 1, old)

\* Mutant: a threshold counts only once it is exceeded.
updateLevel_Strict(x, old) == levelScanStrict(x, Len(XP_THRESHOLDS), old)

\* updateLevel()
updateLevel(x, old) == levelScan(x, Len(XP_THRESHOLDS), old)

\* Mutant: an amount of 0 is rejected as well.
addXPRejects_ZeroToo(amount) == amount <= 0

\* Mutant: no amount is rejected.
addXPRejects_Never(amount) == FALSE

\* addXP: if (amount < 0) throw
addXPRejects(amount) == amount < 0

\* Mutant: a level-up is a rise by exactly one level.
leveledUp_ByOne(newLevel, oldLevel) == newLevel = oldLevel + 1

\* addXP: return this.level > oldLevel
leveledUp(newLevel, oldLevel) == newLevel > oldLevel

\* addXP(amount)
AddXP(amount) ==
  /\ xp + amount <= MaxXP
  /\ IF addXPRejects(amount)
       THEN /\ pop' = ProgressCall("addXP", amount, TRUE, FALSE)
            /\ UNCHANGED <<xp, awarded, level>>
       ELSE /\ xp' = xp + amount
            /\ awarded' = awarded + amount
            /\ level' = updateLevel(xp + amount, level)
            /\ pop' = ProgressCall("addXP", amount, FALSE,
                                   leveledUp(updateLevel(xp + amount, level), level))
  /\ UNCHANGED <<streak, lastActivityDate, completedLessons>>
  /\ ProgressFrame

\* stripTime(date)
stripTime(date) == Midnight(DayOf(date))

msPerDay == 24 * 60 * 60 * 1000

\* getDaysDifference(date1, date2)
getDaysDifference(date1, date2) == (date2 - date1) \div msPerDay

\* recordActivity(date)
RecordActivity(date) ==
  LET today == stripTime(date) IN
  /\ IF lastActivityDate = NoDate
       THEN /\ streak' = 1
            /\ lastActivityDate' = today
       ELSE LET lastActivity == stripTime(lastActivityDate)
                daysDiff == getDaysDifference(lastActivity, today)
            IN IF daysDiff = 0
                 THEN UNCHANGED <<streak, lastActivityDate>>
                 ELSE IF daysDiff = 1
                        THEN /\ streak' = streak + 1
                             /\ lastActivityDate' = today
                        ELSE /\ streak' = 1
                             /\ lastActivityDate' = today
  /\ pop' = ProgressCall("recordActivity", date, FALSE, FALSE)
  /\ UNCHANGED <<xp, awarded, level, completedLessons>>
  /\ ProgressFrame

\* isLessonCompleted(lessonId)
isLessonCompleted(lessonId) == lessonId \in Range(completedLessons)

\* getCompletedLessons(): Array.from of the set, in insertion order
getCompletedLessons == completedLessons

\* Mutant: the ids are kept in an array, pushed on every call.
CompleteLesson_Push(lessonId) ==
  /\ completedLessons' = Append(completedLessons, lessonId)
  /\ Len(completedLessons) < 4
  /\ pop' = ProgressCall("completeLesson", lessonId, FALSE, FALSE)
  /\ UNCHANGED <<xp, awarded, level, streak, lastActivityDate>>
  /\ ProgressFrame

\* completeLesson(lessonId): Set.add keeps the first insertion's place
CompleteLesson(lessonId) ==
  /\ completedLessons' =
       IF lessonId \in Range(completedLessons)
         THEN completedLessons
         ELSE Append(completedLessons, lessonId)
  /\ pop' = ProgressCall("completeLesson", lessonId, FALSE, FALSE)
  /\ UNCHANGED <<xp, awarded, level, streak, lastActivityDate>>
  /\ ProgressFrame

(***************************************************************************)
(* Achievement and AchievementTracker                                      *)
(***************************************************************************)
Null == 0 - 1

Undefined == 0 - 2

\* initializeAchievements: the catalog, in Map insertion order
Catalog ==
  << [id |-> "first-lesson", name |-> "First Steps", tier |-> "bronze",
      type |-> "lessons", count |-> 1],
     [id |-> "ten-lessons", name |-> "Getting Started", tier |-> "silver",
      type |-> "lessons", count |-> 10],
     [id |-> "week-streak", name |-> "Week Warrior", tier |-> "gold",
      type |-> "streak", count |-> 7],
     [id |-> "month-streak", name |-> "Dedication Master", tier |-> "platinum",
      type |-> "streak", count |-> 30] >>

AchievementIds == { Catalog[i].id : i \in DOMAIN Catalog }

NoAchievementCall ==
  [op |-> "new", arg |-> 0, id |-> "",
   preUnlocked |-> [a \in AchievementIds |-> FALSE]]

AchievementCall(name, arg, id) ==
  [op |-> name, arg |-> arg, id |-> id, preUnlocked |-> unlocked]

\* new Achievement(...), once per catalog entry
AchievementInit ==
  /\ unlocked = [a \in AchievementIds |-> FALSE]
  /\ unlockedAt = [a \in AchievementIds |-> Null]
  /\ firstUnlock = [a \in AchievementIds |-> Null]
  /\ aop = NoAchievementCall

\* Mutant: unlock without its guard stamps the time again.
unlockIn_Restamp(u, id) ==
  [unlocked |-> [u.unlocked EXCEPT ![id] = TRUE],
   unlockedAt |-> [u.unlockedAt EXCEPT ![id] = now]]

\* Achievement.unlock() on the achievement id of the pair u
unlockIn(u, id) ==
  IF ~u.unlocked[id]
    THEN [unlocked |-> [u.unlocked EXCEPT ![id] = TRUE],
          unlockedAt |-> [u.unlockedAt EXCEPT ![id] = now]]
    ELSE u

\* The history variable follows the observed flags, not the guard of unlock.
Observe(u) ==
  firstUnlock' =
    [a \in AchievementIds |->
       IF firstUnlock[a] = Null /\ u.unlocked[a] THEN now ELSE firstUnlock[a]]

AchievementFrame ==
  UNCHANGED <<now, energyVars, progressVars, similarityVars, questionVars, comboVars,
  lessonVars, gameVars>>

AchievementState == [unlocked |-> unlocked, unlockedAt |-> unlockedAt]

AchievementStep(u, name, arg, id) ==
  /\ unlocked' = u.unlocked
  /\ unlockedAt' = u.unlockedAt
  /\ Observe(u)
  /\ aop' = AchievementCall(name, arg, id)
  /\ AchievementFrame

\* Mutant: ten-lessons unlocks one lesson early.
checkLessonCompletionIn_NineLessons(u, lessonCount) ==
  LET u1 == IF lessonCount >= 1 THEN unlockIn(u, "first-lesson") ELSE u
  IN IF lessonCount >= 9 THEN unlockIn(u1, "ten-lessons") ELSE u1

\* checkLessonCompletion(lessonCount) on the pair u
checkLessonCompletionIn(u, lessonCount) ==
  LET u1 == IF lessonCount >= 1 THEN unlockIn(u, "first-lesson") ELSE u
  IN IF lessonCount >= 10 THEN unlockIn(u1, "ten-lessons") ELSE u1

\* Mutant: each streak length unlocks the one achievement of its tier.
checkStreakIn_OneTier(u, streakDays) ==
  IF streakDays >= 30 THEN unlockIn(u, "month-streak")
  ELSE IF streakDays >= 7 THEN unlockIn(u, "week-streak")
  ELSE u

\* checkStreak(streakDays) on the pair u
checkStreakIn(u, streakDays) ==
  LET u1 == IF streakDays >= 7 THEN unlockIn(u, "week-streak") ELSE u
  IN IF streakDays >= 30 THEN unlockIn(u1, "month-streak") ELSE u1

CheckLessonCompletion(lessonCount) ==
  AchievementStep(checkLessonCompletionIn(AchievementState, lessonCount),
                  "checkLessonCompletion", lessonCount, "")

CheckStreak(streakDays) ==
  AchievementStep(checkStreakIn(AchievementState, streakDays),
                  "checkStreak", streakDays, "")

\* unlock() called on one achievement
Unlock(id) ==
  AchievementStep(unlockIn(AchievementState, id), "unlock", 0, id)

\* Achievement.toData().unlockedAt: this.unlockedAt || undefined
toDataUnlockedAt(at) == IF at = Null \/ at = 0 THEN Undefined ELSE at

\* Achievement.getUnlockedAt(): this.unlockedAt || 0
getUnlockedAt(id) == IF unlockedAt[id] = Null THEN 0 ELSE unlockedAt[id]

toData(i) ==
  [id |-> Catalog[i].id, name |-> Catalog[i].name, tier |-> Catalog[i].tier,
   unlockedAt |-> toDataUnlockedAt(unlockedAt[Catalog[i].id])]

RECURSIVE unlockedFrom(_)
\* the loop of getUnlockedAchievements from catalog position i on
unlockedFrom(i) ==
  IF i > Len(Catalog) THEN <<>>
  ELSE IF unlocked[Catalog[i].id]
    THEN <<toData(i)>> \o unlockedFrom(i + 1)
    ELSE unlockedFrom(i + 1)

\* getUnlockedAchievements()
getUnlockedAchievements == unlockedFrom(1)

(***************************************************************************)
(* Strings.  A string is a TLA+ string; its characters are its substrings  *)
(* of length 1.                                                            *)
(***************************************************************************)
charAt(s, i) == SubSeq(s, i, i)

UpperCase == "ABCDEFGHIJKLMNOPQRSTUVWXYZ"

LowerCase == "abcdefghijklmnopqrstuvwxyz"

\* toLowerCase, letter by letter
LowerOf ==
  [A |-> "a", B |-> "b", C |-> "c", D |-> "d", E |-> "e", F |-> "f", G |-> "g",
   H |-> "h", I |-> "i", J |-> "j", K |-> "k", L |-> "l", M |-> "m", N |-> "n",
   O |-> "o", P |-> "p", Q |-> "q", R |-> "r", S |-> "s", T |-> "t", U |-> "u",
   V |-> "v", W |-> "w", X |-> "x", Y |-> "y", Z |-> "z"]

\* toLowerCase of one character
lowerChar(c) == IF c \in DOMAIN LowerOf THEN LowerOf[c] ELSE c

RECURSIVE toLowerCase(_)
\* String.prototype.toLowerCase
toLowerCase(s) ==
  IF s = "" THEN ""
  ELSE lowerChar(charAt(s, 1)) \o toLowerCase(SubSeq(s, 2, Len(s)))

isWhiteSpace(c) == c = " "

RECURSIVE trim(_)
\* String.prototype.trim
trim(s) ==
  IF s = "" THEN ""
  ELSE IF isWhiteSpace(charAt(s, 1)) THEN trim(SubSeq(s, 2, Len(s)))
  ELSE IF isWhiteSpace(charAt(s, Len(s))) THEN trim(SubSeq(s, 1, Len(s) - 1))
  ELSE s

\* String.prototype.includes
includes(s, pattern) ==
  \E i \in 1..(Len(s) - Len(pattern) + 1) : SubSeq(s, i, i + Len(pattern) - 1) = pattern

(***************************************************************************)
(* TranslationQuestion: the similarity of two strings.  The number         *)
(* 1 - distance / maxLen is kept as the exact fraction                     *)
(* (maxLen - distance) / maxLen; for lengths up to 2000 the comparison     *)
(* with 0.85 in double arithmetic agrees with the exact one.               *)
(***************************************************************************)
Min3(a, b, c) == Min(a, Min(b, c))

RECURSIVE fillRow_SubstitutionTwo(_, _, _, _)
\* Mutant: replacing a character costs as much as deleting and inserting.
fillRow_SubstitutionTwo(s1, c2, prev, cur) ==
  LET j == Len(cur) IN
  IF j > Len(s1) THEN cur
  ELSE fillRow_SubstitutionTwo(s1, c2, prev,
               Append(cur,
                      IF c2 = charAt(s1, j)
                        THEN prev[j]
                        ELSE Min3(prev[j] + 2, cur[j] + 1, prev[j + 1] + 1)))

RECURSIVE fillRow(_, _, _, _)
\* The inner loop of levenshteinDistance for one row: cur holds the row's
\* columns 0..j-1 (column k at index k+1), prev is the row above, c2 is
\* str2.charAt(i - 1).
fillRow(s1, c2, prev, cur) ==
  LET j == Len(cur) IN
  IF j > Len(s1) THEN cur
  ELSE fillRow(s1, c2, prev,
               Append(cur,
                      IF c2 = charAt(s1, j)
                        THEN prev[j]
                        ELSE Min3(prev[j] + 1, cur[j] + 1, prev[j + 1] + 1)))

RECURSIVE matrixRow(_, _, _)
\* matrix[i] once the loops are done: row 0 is 0..len1, row i starts with i.
matrixRow(s1, s2, i) ==
  IF i = 0 THEN [k \in 1..(Len(s1) + 1) |-> k - 1]
  ELSE fillRow(s1, charAt(s2, i), matrixRow(s1, s2, i - 1), <<i>>)

\* levenshteinDistance(str1, str2)
levenshteinDistance(s1, s2) == matrixRow(s1, s2, Len(s2))[Len(s1) + 1]

Fraction(n, d) == [num |-> n, den |-> d]

NoFraction == Fraction(0, 0)

\* Mutant: the length test comes before the equality test.
calculateSimilarity_LengthFirst(s1, s2) ==
  IF Len(s1) = 0 \/ Len(s2) = 0 THEN Fraction(0, 1)
  ELSE IF s1 = s2 THEN Fraction(1, 1)
  ELSE Fraction(Max(Len(s1), Len(s2)) - levenshteinDistance(s1, s2),
                Max(Len(s1), Len(s2)))

\* calculateSimilarity(str1, str2)
calculateSimilarity(s1, s2) ==
  IF s1 = s2 THEN Fraction(1, 1)
  ELSE IF Len(s1) = 0 \/ Len(s2) = 0 THEN Fraction(0, 1)
  ELSE Fraction(Max(Len(s1), Len(s2)) - levenshteinDistance(s1, s2),
                Max(Len(s1), Len(s2)))

\* Mutant: the threshold is 0.86.
isFuzzyMatch_Tight(s1, s2) ==
  LET sim == calculateSimilarity(s1, s2) IN 100 * sim.num >= 86 * sim.den

\* Mutant: the threshold is 0.8.
isFuzzyMatch_Loose(s1, s2) ==
  LET sim == calculateSimilarity(s1, s2) IN 100 * sim.num >= 80 * sim.den

\* similarity >= 0.85
isFuzzyMatch(s1, s2) ==
  LET sim == calculateSimilarity(s1, s2) IN 100 * sim.num >= 85 * sim.den

SimilarityInit ==
  /\ str1 = ""
  /\ str2 = ""
  /\ similarity = NoFraction

\* One call of calculateSimilarity(a, b).
CalculateSimilarity(a, b) ==
  /\ str1' = a
  /\ str2' = b
  /\ similarity' = calculateSimilarity(a, b)
  /\ UNCHANGED <<now, energyVars, progressVars, achievementVars, questionVars,
                 comboVars,
                 lessonVars, gameVars>>

(***************************************************************************)
(* Questions.  A question is its variant and its constructor arguments;    *)
(* the fields a variant does not have are empty.  An optional string       *)
(* (correctAnswer?: string) is the empty sequence or a sequence of one.    *)
(***************************************************************************)
Difficulties == {"easy", "medium", "hard"}

Absent == <<>>

Present(s) == <<s>>

\* A parameter with a default value: the default stands in when the
\* argument is left out.
withDefault(arg, default) == IF arg = Absent THEN default ELSE arg[1]

\* difficulty: Difficulty = 'medium'
DifficultyArgs == {Absent} \cup { Present(d) : d \in Difficulties }

\* isFirstTry = false
FirstTryArgs == {Absent} \cup { Present(b) : b \in BOOLEAN }

MultipleChoiceQuestion(text, choices, correctIndex, difficulty) ==
  [variant |-> "MultipleChoice", text |-> text,
   difficulty |-> withDefault(difficulty, "medium"),
   choices |-> choices, correctIndex |-> correctIndex,
   accepted |-> <<>>, correctAnswer |-> ""]

TranslationQuestion(text, acceptedTranslations, difficulty) ==
  [variant |-> "Translation", text |-> text,
   difficulty |-> withDefault(difficulty, "medium"),
   choices |-> <<>>, correctIndex |-> 0,
   accepted |-> acceptedTranslations, correctAnswer |-> ""]

FillInBlankQuestion(text, correctAnswer, acceptedAnswers, difficulty) ==
  [variant |-> "FillInBlank", text |-> text,
   difficulty |-> withDefault(difficulty, "medium"),
   choices |-> <<>>, correctIndex |-> 0,
   accepted |-> acceptedAnswers, correctAnswer |-> correctAnswer]

QuestionResult(isCorrect, feedback, points, correctAnswer) ==
  [isCorrect |-> isCorrect, feedback |-> feedback, points |-> points,
   correctAnswer |-> correctAnswer]

NoResult == QuestionResult(FALSE, "", 0 - 1, Absent)

\* getBasePoints()
getBasePoints(q) ==
  CASE q.difficulty = "easy" -> 5
    [] q.difficulty = "medium" -> 10
    [] q.difficulty = "hard" -> 15

\* Mutant: the first-try bonus is paid on every correct answer.
calculatePoints_BonusAlways(q, isCorrect, firstTry) ==
  IF ~isCorrect THEN 0 ELSE getBasePoints(q) + 5

\* calculatePoints(isCorrect, isFirstTry)
calculatePoints(q, isCorrect, firstTry) ==
  IF ~isCorrect THEN 0
  ELSE getBasePoints(q) + (IF firstTry THEN 5 ELSE 0)

\* Mutant: the choice is trimmed like the answer.
normalizedCorrect_Trimmed(q) == toLowerCase(trim(q.choices[q.correctIndex + 1]))

\* MultipleChoiceQuestion.checkAnswer: correctAnswer.toLowerCase()
normalizedCorrect(q) == toLowerCase(q.choices[q.correctIndex + 1])

\* MultipleChoiceQuestion.checkAnswer(answer, isFirstTry)
checkAnswerMultipleChoice(q, a, firstTry) ==
  LET normalizedAnswer == toLowerCase(trim(a))
      correctAnswer == q.choices[q.correctIndex + 1]
      isCorrect == normalizedAnswer = normalizedCorrect(q)
      points == calculatePoints(q, isCorrect, firstTry)
  IN IF isCorrect
       THEN QuestionResult(TRUE, "Correct!", points, Absent)
       ELSE QuestionResult(FALSE,
                           "Incorrect. The correct answer is: " \o correctAnswer,
                           0, Present(correctAnswer))

\* Mutant: the text is lower-cased but not trimmed.
normalizeText_NoTrim(text) == toLowerCase(text)

\* TranslationQuestion.normalizeText(text)
normalizeText(text) == toLowerCase(trim(text))

\* `${this.acceptedTranslations[0]}` and acceptedTranslations[0]
firstAccepted(q) ==
  IF Len(q.accepted) = 0 THEN Absent ELSE Present(q.accepted[1])

firstAcceptedText(q) ==
  IF Len(q.accepted) = 0 THEN "undefined" ELSE q.accepted[1]

RECURSIVE translationLoop(_, _, _, _)
\* The for loop of TranslationQuestion.checkAnswer from entry i on, and the
\* return after it.
translationLoop(q, normalized, firstTry, i) ==
  IF i > Len(q.accepted)
    THEN QuestionResult(FALSE, "Not quite. Expected: " \o firstAcceptedText(q),
                        0, firstAccepted(q))
  ELSE LET normalizedAccepted == normalizeText(q.accepted[i]) IN
       IF normalized = normalizedAccepted
         THEN QuestionResult(TRUE, "Correct!",
                             calculatePoints(q, TRUE, firstTry), Absent)
       ELSE IF isFuzzyMatch(normalized, normalizedAccepted)
         THEN QuestionResult(TRUE, "Correct! (Note: minor typo detected)",
                             calculatePoints(q, TRUE, firstTry), Absent)
       ELSE translationLoop(q, normalized, firstTry, i + 1)

\* Mutant: an exact match anywhere in the list is looked for before any
\* fuzzy match.
checkAnswerTranslation_ExactFirst(q, a, firstTry) ==
  IF \E i \in 1..Len(q.accepted) : normalizeText(a) = normalizeText(q.accepted[i])
    THEN QuestionResult(TRUE, "Correct!", calculatePoints(q, TRUE, firstTry), Absent)
    ELSE translationLoop(q, normalizeText(a), firstTry, 1)

\* TranslationQuestion.checkAnswer(answer, isFirstTry)
checkAnswerTranslation(q, a, firstTry) ==
  translationLoop(q, normalizeText(a), firstTry, 1)

\* FillInBlankQuestion.generateHint()
generateHint(q) ==
  IF includes(q.text, "yesterday") \/ includes(q.text, "ago")
    THEN "Hint: Check the past tense form."
    ELSE "Incorrect. The correct answer is: " \o q.correctAnswer

RECURSIVE fillInBlankLoop_ReportsAccepted(_, _, _, _)
\* Mutant: a rejection reports the first accepted answer.
fillInBlankLoop_ReportsAccepted(q, normalized, firstTry, i) ==
  IF i > Len(q.accepted)
    THEN QuestionResult(FALSE, generateHint(q), 0,
                        Present(IF Len(q.accepted) = 0 THEN q.correctAnswer
                                ELSE q.accepted[1]))
  ELSE IF normalized = toLowerCase(q.accepted[i])
    THEN QuestionResult(TRUE, "Correct!",
                        calculatePoints(q, TRUE, firstTry), Absent)
  ELSE fillInBlankLoop_ReportsAccepted(q, normalized, firstTry, i + 1)

RECURSIVE fillInBlankLoop(_, _, _, _)
\* The for loop of FillInBlankQuestion.checkAnswer from entry i on, and the
\* return after it.
fillInBlankLoop(q, normalized, firstTry, i) ==
  IF i > Len(q.accepted)
    THEN QuestionResult(FALSE, generateHint(q), 0, Present(q.correctAnswer))
  ELSE IF normalized = toLowerCase(q.accepted[i])
    THEN QuestionResult(TRUE, "Correct!",
                        calculatePoints(q, TRUE, firstTry), Absent)
  ELSE fillInBlankLoop(q, normalized, firstTry, i + 1)

\* Mutant: the accepted entries are trimmed like the answer.
checkAnswerFillInBlank_TrimAccepted(q, a, firstTry) ==
  fillInBlankLoop([q EXCEPT !.accepted = [i \in 1..Len(q.accepted) |-> trim(q.accepted[i])]],
                  toLowerCase(trim(a)), firstTry, 1)

\* FillInBlankQuestion.checkAnswer(answer, isFirstTry)
checkAnswerFillInBlank(q, a, firstTry) ==
  fillInBlankLoop(q, toLowerCase(trim(a)), firstTry, 1)

\* question.checkAnswer(answer, isFirstTry = false), by the variant of the
\* object; the argument may be left out
checkAnswer(q, a, firstTry) ==
  LET first == withDefault(firstTry, FALSE) IN
  CASE q.variant = "MultipleChoice" -> checkAnswerMultipleChoice(q, a, first)
    [] q.variant = "Translation" -> checkAnswerTranslation(q, a, first)
    [] q.variant = "FillInBlank" -> checkAnswerFillInBlank(q, a, first)

QuestionFrame ==
  UNCHANGED <<now, energyVars, progressVars, achievementVars, similarityVars,
              comboVars,
              lessonVars, gameVars>>

\* One call question.checkAnswer(a, firstTry) on a question of the variant.
CheckAnswer(variant, a, firstTry) ==
  /\ question.variant = variant
  /\ answer' = a
  /\ isFirstTry' = firstTry
  /\ result' = checkAnswer(question, a, firstTry)
  /\ UNCHANGED question
  /\ QuestionFrame

QuestionAtRest ==
  /\ question = MultipleChoiceQuestion("", <<"Hello">>, 0, Present("easy"))
  /\ answer = ""
  /\ isFirstTry = Absent
  /\ result = NoResult

(***************************************************************************)
(* ComboSystem.  The multiplier 1.0 / 1.5 / 2.0 is kept as a fraction; the  *)
(* product of an integer and 1.5 is exact in double arithmetic.            *)
(***************************************************************************)
NoComboCall ==
  [op |-> "new", arg |-> 0, ret |-> 0, preCombo |-> 0, preHighest |-> 0]

ComboCall(name, arg, ret) ==
  [op |-> name, arg |-> arg, ret |-> ret,
   preCombo |-> currentCombo, preHighest |-> highestCombo]

\* constructor()
ComboInit ==
  /\ currentCombo = 0
  /\ highestCombo = 0
  /\ answered = <<>>
  /\ cop = NoComboCall

\* What a ComboSystem call leaves alone outside the ComboSystem.
ComboFrame ==
  UNCHANGED <<now, energyVars, progressVars, achievementVars, similarityVars,
              questionVars,
              lessonVars, gameVars>>

\* Mutant: an incorrect answer takes one off the combo.
comboAfter_Decrement(isCorrect) ==
  IF isCorrect THEN currentCombo + 1 ELSE Max(0, currentCombo - 1)

\* recordAnswer: this.currentCombo += 1, or this.currentCombo = 0
comboAfter(isCorrect) == IF isCorrect THEN currentCombo + 1 ELSE 0

\* Mutant: the highest combo follows only a combo of 2 or more.
highestAfter_FromTwo(isCorrect, combo) ==
  IF isCorrect /\ combo > highestCombo /\ combo >= 2 THEN combo ELSE highestCombo

\* recordAnswer: the highest combo once currentCombo is set to combo
highestAfter(isCorrect, combo) ==
  IF isCorrect /\ combo > highestCombo THEN combo ELSE highestCombo

\* recordAnswer(isCorrect)
ComboRecordAnswer(isCorrect) ==
  /\ currentCombo' = comboAfter(isCorrect)
  /\ highestCombo' = highestAfter(isCorrect, comboAfter(isCorrect))
  /\ answered' = Append(answered, isCorrect)
  /\ cop' = ComboCall("recordAnswer", IF isCorrect THEN 1 ELSE 0, 0)
  /\ ComboFrame

\* getMultiplier()
getMultiplier ==
  IF currentCombo >= 5 THEN Fraction(2, 1)
  ELSE IF currentCombo >= 3 THEN Fraction(3, 2)
  ELSE Fraction(1, 1)

\* Mutant: the product is rounded up.
comboCalculatePoints_Ceil(basePoints) ==
  (basePoints * getMultiplier.num + getMultiplier.den - 1) \div getMultiplier.den

\* ComboSystem.calculatePoints(basePoints): Math.floor(basePoints * multiplier)
comboCalculatePoints(basePoints) ==
  (basePoints * getMultiplier.num) \div getMultiplier.den

\* One call of calculatePoints(basePoints).
ComboCalculatePoints(basePoints) ==
  /\ cop' = ComboCall("calculatePoints", basePoints, comboCalculatePoints(basePoints))
  /\ UNCHANGED <<currentCombo, highestCombo, answered>>
  /\ ComboFrame

(***************************************************************************)
(* SkillPath and LessonManager.  A lesson is known by its id; a skill path  *)
(* is its id and the ids of its lessons in the order they were added.      *)
(***************************************************************************)
NoLessonCall == [op |-> "new", path |-> "", id |-> "", completed |-> <<>>, ret |-> <<>>]

LessonCall(name, path, id, completed, ret) ==
  [op |-> name, path |-> path, id |-> id, completed |-> completed, ret |-> ret]

\* new LessonManager()
LessonManagerInit ==
  /\ lessons = {}
  /\ skillPaths = <<>>
  /\ lop = NoLessonCall

LessonFrame ==
  UNCHANGED <<now, energyVars, progressVars, achievementVars, similarityVars,
              questionVars, comboVars, gameVars>>

RECURSIVE findIndexFrom(_, _, _)
\* findIndex((l) => l.getId() === lessonId) from position i (1-based) on:
\* the 0-based index of the first lesson with the id, -1 when there is none
findIndexFrom(pathLessons, lessonId, i) ==
  IF i > Len(pathLessons) THEN 0 - 1
  ELSE IF pathLessons[i] = lessonId THEN i - 1
  ELSE findIndexFrom(pathLessons, lessonId, i + 1)

findIndex(pathLessons, lessonId) == findIndexFrom(pathLessons, lessonId, 1)

\* completedLessons.includes(id)
arrayIncludes(list, x) == \E i \in DOMAIN list : list[i] = x

\* SkillPath.isLessonUnlocked(lessonId, completedLessons); the lesson before
\* the 0-based lessonIndex is at position lessonIndex here
isLessonUnlocked(pathLessons, lessonId, completed) ==
  LET lessonIndex == findIndex(pathLessons, lessonId) IN
  IF lessonIndex = 0 - 1 THEN FALSE
  ELSE IF lessonIndex = 0 THEN TRUE
  ELSE arrayIncludes(completed, pathLessons[lessonIndex])

RECURSIVE nextInPath(_, _, _)
\* the inner loop of getNextLesson from position i of the path on
nextInPath(pathLessons, completed, i) ==
  IF i > Len(pathLessons) THEN Absent
  ELSE IF /\ ~arrayIncludes(completed, pathLessons[i])
          /\ isLessonUnlocked(pathLessons, pathLessons[i], completed)
    THEN Present(pathLessons[i])
    ELSE nextInPath(pathLessons, completed, i + 1)

RECURSIVE nextFromPath(_, _, _)
\* the outer loop of getNextLesson from path p on
nextFromPath(paths, completed, p) ==
  IF p > Len(paths) THEN Absent
  ELSE IF nextInPath(paths[p].lessons, completed, 1) # Absent
    THEN nextInPath(paths[p].lessons, completed, 1)
    ELSE nextFromPath(paths, completed, p + 1)

\* Mutant: the first lesson of the first path that is not completed, whether
\* or not later lessons remain.
getNextLesson_FirstPathOnly(paths, completed) ==
  IF Len(paths) = 0 THEN Absent ELSE nextInPath(paths[1].lessons, completed, 1)

\* LessonManager.getNextLesson(completedLessons): the lesson's id, Absent
\* for undefined
getNextLesson(paths, completed) == nextFromPath(paths, completed, 1)

\* skillPaths.set(path.getId(), path): a known id keeps its place in the Map
setPath(paths, pathId, pathLessons) ==
  IF \E i \in DOMAIN paths : paths[i].id = pathId
    THEN [i \in DOMAIN paths |->
            IF paths[i].id = pathId
              THEN [id |-> pathId, lessons |-> pathLessons]
              ELSE paths[i]]
    ELSE Append(paths, [id |-> pathId, lessons |-> pathLessons])

\* addSkillPath(path), the path holding the lessons pathLessons
AddSkillPath(pathId, pathLessons) ==
  /\ skillPaths' = setPath(skillPaths, pathId, pathLessons)
  /\ lessons' = lessons \cup Range(pathLessons)
  /\ lop' = LessonCall("addSkillPath", pathId, "", pathLessons, <<>>)
  /\ LessonFrame

\* One call path.isLessonUnlocked(lessonId, completed) on the p-th path.
IsLessonUnlocked(p, lessonId, completed) ==
  /\ p \in DOMAIN skillPaths
  /\ lop' = LessonCall("isLessonUnlocked", skillPaths[p].id, lessonId, completed,
                       <<isLessonUnlocked(skillPaths[p].lessons, lessonId, completed)>>)
  /\ UNCHANGED <<lessons, skillPaths>>
  /\ LessonFrame

\* One call getNextLesson(completed).
GetNextLesson(completed) ==
  /\ lop' = LessonCall("getNextLesson", "", "", completed,
                       getNextLesson(skillPaths, completed))
  /\ UNCHANGED <<lessons, skillPaths>>
  /\ LessonFrame

(***************************************************************************)
(* LanguageLearningGame.  The content is what initializeContent builds:    *)
(* one skill path of two lessons.  answerQuestion is one step; the calls   *)
(* it makes on the other objects are part of it and leave those objects'   *)
(* own call records alone.                                                 *)
(***************************************************************************)
GameSkillPaths == << [id |-> "beginner", lessons |-> <<"greetings-1", "phrases-1">>] >>

\* createGreetingsLesson / createBasicPhrasesLesson: Lesson.questions
GameQuestions ==
  [l \in LessonIds |->
     IF l = "greetings-1"
       THEN << MultipleChoiceQuestion(
                 "What is a common way to greet someone in English?",
                 <<"Hello", "Goodbye", "Thank you", "Sorry">>, 0, Present("easy")),
               TranslationQuestion("How do you say it in English?",
                                   <<"goodbye", "bye">>, Present("easy")),
               FillInBlankQuestion("_____, how are you today?", "Hello",
                                   <<"Hello", "Hi">>, Present("easy")) >>
       ELSE << MultipleChoiceQuestion(
                 "How do you express gratitude in English?",
                 <<"Thank you", "Sorry", "Please", "Excuse me">>, 0,
                 Present("medium")) >>]

\* The answers given in a game: each is right for some question and wrong
\* for another.
GameAnswerTexts == {"Hello", "goodbye", "Thank you"}

\* Mutant: the answers are checked without the first-try flag.
GameResults_NotFirstTry ==
  [l \in LessonIds |->
     [i \in DOMAIN GameQuestions[l] |->
        [a \in GameAnswerTexts |-> checkAnswer(GameQuestions[l][i], a, Absent)]]]

\* question.checkAnswer(answer, isFirstTry) with isFirstTry = true, for every
\* question of the content and every answer given
GameResults ==
  [l \in LessonIds |->
     [i \in DOMAIN GameQuestions[l] |->
        [a \in GameAnswerTexts |-> checkAnswer(GameQuestions[l][i], a, Present(TRUE))]]]

\* The answers that are checked in one game; a call that throws checks none.
MaxGameAnswers == 5

NoEnergyError == "No energy remaining. Wait for regeneration or refill."

NoGameCall ==
  [op |-> "new", lessonId |-> "", questionIndex |-> 0,
   threw |-> "", isCorrect |-> FALSE, points |-> 0, leveledUp |-> FALSE,
   newAchievements |-> <<>>, combo |-> 0, energy |-> 0]

GameCall(lessonId, questionIndex, threw, ret) ==
  [op |-> "answerQuestion", lessonId |-> lessonId, questionIndex |-> questionIndex,
   threw |-> threw, isCorrect |-> ret.isCorrect,
   points |-> ret.points, leveledUp |-> ret.leveledUp,
   newAchievements |-> ret.newAchievements, combo |-> ret.combo,
   energy |-> ret.energy]

NoReturn ==
  [isCorrect |-> FALSE, points |-> 0, leveledUp |-> FALSE,
   newAchievements |-> <<>>, combo |-> 0, energy |-> 0]

\* new Lesson(...) and addQuestion for each lesson of the content
GameLessonsInit ==
  /\ questionResults = [l \in LessonIds |-> [i \in DOMAIN GameQuestions[l] |-> FALSE]]
  /\ lessonCompleted = [l \in LessonIds |-> FALSE]
  /\ correctOnce = {}
  /\ reported = <<>>
  /\ gop = NoGameCall

\* getLessonById(id): whether the Map has the id
hasLesson(lessonId) == lessonId \in lessons

\* Lesson.getProgress() for the flags of one lesson
getProgress(flags) ==
  IF Len(flags) = 0 THEN 0
  ELSE (Cardinality({ i \in DOMAIN flags : flags[i] }) * 100) \div Len(flags)

\* Lesson.recordQuestionAnswer(questionIndex, isCorrect) on the flags
recordQuestionAnswer(flags, questionIndex, isCorrect) ==
  IF questionIndex >= 0 /\ questionIndex < Len(flags)
    THEN [flags EXCEPT ![questionIndex + 1] = isCorrect]
    ELSE flags

\* getMultiplier() at a given combo
multiplierAt(combo) ==
  IF combo >= 5 THEN Fraction(2, 1)
  ELSE IF combo >= 3 THEN Fraction(3, 2)
  ELSE Fraction(1, 1)

\* Mutant: the points are computed before the answer is recorded.
pointsWithCombo_BeforeRecording(basePoints, combo) ==
  (basePoints * multiplierAt(currentCombo).num) \div multiplierAt(currentCombo).den

\* comboSystem.calculatePoints(result.points) once the combo is combo
pointsWithCombo(basePoints, combo) ==
  (basePoints * multiplierAt(combo).num) \div multiplierAt(combo).den

\* UserProgress.recordActivity(date) on the pair p of streak and lastActivityDate
recordActivityIn(p, date) ==
  LET today == stripTime(date) IN
  IF p.lastActivityDate = NoDate
    THEN [streak |-> 1, lastActivityDate |-> today]
    ELSE LET daysDiff == getDaysDifference(stripTime(p.lastActivityDate), today)
         IN IF daysDiff = 0 THEN p
            ELSE IF daysDiff = 1
                   THEN [streak |-> p.streak + 1, lastActivityDate |-> today]
                   ELSE [streak |-> 1, lastActivityDate |-> today]

\* UserProgress.completeLesson(lessonId) on the list
completeLessonIn(list, lessonId) ==
  IF lessonId \in Range(list) THEN list ELSE Append(list, lessonId)

RECURSIVE newAchievementsFrom_All(_, _, _)
\* Mutant: every unlocked achievement is reported, new or not.
newAchievementsFrom_All(before, u, i) ==
  IF i > Len(Catalog) THEN <<>>
  ELSE IF u.unlocked[Catalog[i].id]
    THEN <<Catalog[i].name>> \o newAchievementsFrom_All(before, u, i + 1)
    ELSE newAchievementsFrom_All(before, u, i + 1)

\* The names of the achievements unlocked in u and not in the flags before,
\* in catalog order.
RECURSIVE newAchievementsFrom(_, _, _)
newAchievementsFrom(before, u, i) ==
  IF i > Len(Catalog) THEN <<>>
  ELSE IF u.unlocked[Catalog[i].id] /\ ~before[Catalog[i].id]
    THEN <<Catalog[i].name>> \o newAchievementsFrom(before, u, i + 1)
    ELSE newAchievementsFrom(before, u, i + 1)

\* What a game call leaves alone: the clock, the zone, the content, the call
\* records of the objects it drives, and the question and strings of the
\* direct checkAnswer and calculateSimilarity calls.
GameFrame ==
  UNCHANGED <<now, maxEnergy, eop, tz, pop, aop, cop, similarityVars, questionVars,
              lessonVars>>

\* Mutant: the energy is taken before the lesson and the question are looked up.
GameThrowsAfterEnergy(lessonId, questionIndex, userAnswer, message) ==
  /\ gop' = GameCall(lessonId, questionIndex, message, NoReturn)
  /\ currentEnergy' = currentEnergy - 1
  /\ UNCHANGED <<lastUpdate, xp, awarded, level, streak,
                 lastActivityDate, completedLessons, unlocked, unlockedAt,
                 firstUnlock, currentCombo, highestCombo, answered,
                 questionResults, lessonCompleted, correctOnce, reported>>
  /\ GameFrame

\* answerQuestion throws: nothing is assigned before the throw.
GameThrows(lessonId, questionIndex, userAnswer, message) ==
  /\ gop' = GameCall(lessonId, questionIndex, message, NoReturn)
  /\ UNCHANGED <<currentEnergy, lastUpdate, xp, awarded, level, streak,
                 lastActivityDate, completedLessons, unlocked, unlockedAt,
                 firstUnlock, currentCombo, highestCombo, answered,
                 questionResults, lessonCompleted, correctOnce, reported>>
  /\ GameFrame

\* Mutant: an incorrect answer costs no energy.
energyAfterAnswer_Free(isCorrect) == currentEnergy

\* energySystem.recordAnswer(false) in the else branch; hasEnergy() held
energyAfterAnswer(isCorrect) ==
  IF ~isCorrect /\ currentEnergy > 0 THEN currentEnergy - 1 ELSE currentEnergy

\* lesson.getProgress() === 100
lessonDone(flags) == getProgress(flags) = 100

\* answerQuestion past its three checks
GameAnswers(lessonId, questionIndex, userAnswer) ==
  LET res == GameResults[lessonId][questionIndex + 1][userAnswer]
      combo == comboAfter(res.isCorrect)
      points == pointsWithCombo(res.points, combo)
      xp1 == IF res.isCorrect THEN xp + points ELSE xp
      level1 == IF res.isCorrect THEN updateLevel(xp1, level) ELSE level
      flags == IF res.isCorrect
                 THEN recordQuestionAnswer(questionResults[lessonId], questionIndex, TRUE)
                 ELSE questionResults[lessonId]
      completes == res.isCorrect /\ lessonDone(flags)
      list == IF completes THEN completeLessonIn(completedLessons, lessonId)
              ELSE completedLessons
      activity == IF completes
                    THEN recordActivityIn([streak |-> streak,
                                           lastActivityDate |-> lastActivityDate], now)
                    ELSE [streak |-> streak, lastActivityDate |-> lastActivityDate]
      u1 == IF completes THEN checkLessonCompletionIn(AchievementState, Len(list))
            ELSE AchievementState
      u2 == checkLessonCompletionIn(u1, Len(list))
      u3 == checkStreakIn(u2, activity.streak)
      energy == energyAfterAnswer(res.isCorrect)
  IN
  /\ xp1 <= MaxXP
  /\ Len(answered) < MaxGameAnswers
  /\ currentCombo' = combo
  /\ highestCombo' = highestAfter(res.isCorrect, combo)
  /\ answered' = Append(answered, res.isCorrect)
  /\ xp' = xp1
  /\ awarded' = IF res.isCorrect THEN awarded + points ELSE awarded
  /\ level' = level1
  /\ questionResults' = [questionResults EXCEPT ![lessonId] = flags]
  /\ correctOnce' = IF res.isCorrect
                      THEN correctOnce \cup {<<lessonId, questionIndex>>}
                      ELSE correctOnce
  /\ completedLessons' = list
  /\ streak' = activity.streak
  /\ lastActivityDate' = activity.lastActivityDate
  /\ lessonCompleted' = IF completes
                          THEN [lessonCompleted EXCEPT ![lessonId] = TRUE]
                          ELSE lessonCompleted
  /\ currentEnergy' = energy
  /\ lastUpdate' = IF energy # currentEnergy THEN now ELSE lastUpdate
  /\ unlocked' = u3.unlocked
  /\ unlockedAt' = u3.unlockedAt
  /\ Observe(u3)
  /\ reported' = reported \o newAchievementsFrom(unlocked, u3, 1)
  /\ gop' = GameCall(lessonId, questionIndex, "",
                     [isCorrect |-> res.isCorrect, points |-> points,
                      leveledUp |-> res.isCorrect /\ leveledUp(level1, level),
                      newAchievements |-> newAchievementsFrom(unlocked, u3, 1),
                      combo |-> combo, energy |-> energy])
  /\ GameFrame

\* Mutant: the lesson is looked up before the energy is checked.
AnswerQuestion_LessonFirst(lessonId, questionIndex, userAnswer) ==
  IF ~hasLesson(lessonId)
    THEN GameThrows(lessonId, questionIndex, userAnswer, "Lesson not found")
  ELSE IF ~hasEnergy
    THEN GameThrows(lessonId, questionIndex, userAnswer, NoEnergyError)
  ELSE IF questionIndex < 0 \/ questionIndex >= Len(GameQuestions[lessonId])
    THEN GameThrows(lessonId, questionIndex, userAnswer, "Question not found")
  ELSE GameAnswers(lessonId, questionIndex, userAnswer)

\* answerQuestion(lessonId, questionIndex, answer)
AnswerQuestion(lessonId, questionIndex, userAnswer) ==
  IF ~hasEnergy
    THEN GameThrows(lessonId, questionIndex, userAnswer, NoEnergyError)
  ELSE IF ~hasLesson(lessonId)
    THEN GameThrows(lessonId, questionIndex, userAnswer, "Lesson not found")
  ELSE IF questionIndex < 0 \/ questionIndex >= Len(GameQuestions[lessonId])
    THEN GameThrows(lessonId, questionIndex, userAnswer, "Question not found")
  ELSE GameAnswers(lessonId, questionIndex, userAnswer)

\* getGameState().nextLesson: the id, Absent for null
nextLesson == getNextLesson(skillPaths, getCompletedLessons)

(***************************************************************************)
(* Specifications, one per class.  The objects a specification does not    *)
(* exercise stay as constructed.                                           *)
(***************************************************************************)
GameMaxEnergy == 5

\* An EnergySystem as the game constructs it, at time 0.
EnergyAtRest ==
  /\ now = 0
  /\ maxEnergy = GameMaxEnergy
  /\ EnergyInit

\* A UserProgress as constructed, in a zone whose days are all 24 hours.
ProgressAtRest ==
  /\ tz = [day |-> 0 - 1, hours |-> 24]
  /\ ProgressInit

AchievementsAtRest == AchievementInit

ComboAtRest == ComboInit

\* The LessonManager as the game fills it.
LessonsAtRest ==
  /\ lessons = LessonIds
  /\ skillPaths = GameSkillPaths
  /\ lop = NoLessonCall

GameAtRest == GameLessonsInit

InitEnergy ==
  /\ now \in { t \in Times : t <= MsPerHour }
  /\ EnergyInit
  /\ ProgressAtRest
  /\ AchievementsAtRest
  /\ SimilarityInit
  /\ QuestionAtRest
  /\ ComboAtRest
  /\ LessonsAtRest
  /\ GameAtRest

NextEnergy ==
  \/ Tick
  \/ \E isCorrect \in BOOLEAN : EnergyRecordAnswer(isCorrect)
  \/ \E currentTime \in Times : Regenerate(currentTime)
  \/ Refill

SpecEnergy == InitEnergy /\ [][NextEnergy]_vars

XPAmounts == {0 - 50, 0 - 1, 0, 1, 49, 50, 100, 250, 1000, 3000, 8000}

InitXP ==
  /\ EnergyAtRest /\ ProgressAtRest /\ AchievementsAtRest /\ SimilarityInit
  /\ QuestionAtRest
  /\ ComboAtRest
  /\ LessonsAtRest
  /\ GameAtRest

NextXP == \E amount \in XPAmounts : AddXP(amount)

SpecXP == InitXP /\ [][NextXP]_vars

InitStreak ==
  /\ EnergyAtRest
  /\ tz \in TimeZones
  /\ ProgressInit
  /\ AchievementsAtRest
  /\ SimilarityInit
  /\ QuestionAtRest
  /\ ComboAtRest
  /\ LessonsAtRest
  /\ GameAtRest

NextStreak == \E date \in Dates : RecordActivity(date)

SpecStreak == InitStreak /\ [][NextStreak]_vars

\* addXP amounts for the whole UserProgress: negative, zero, one that crosses
\* two thresholds at once from 0, and a large one.
ProgressAmounts == {0 - 1, 0, 250, 4000}

\* recordActivity dates for the whole UserProgress: noon of each day.
ProgressDates == { Midnight(d) + 12 * MsPerHour : d \in Days }

InitProgress ==
  /\ EnergyAtRest /\ ProgressAtRest /\ AchievementsAtRest /\ SimilarityInit
  /\ QuestionAtRest
  /\ ComboAtRest
  /\ LessonsAtRest
  /\ GameAtRest

\* completeLesson ids for the whole UserProgress: the lessons of the game
\* and one that no lesson has.
ProgressLessonIds == LessonIds \cup {"numbers-1"}

NextProgress ==
  \/ \E amount \in ProgressAmounts : AddXP(amount)
  \/ \E date \in ProgressDates : RecordActivity(date)
  \/ \E lessonId \in ProgressLessonIds : CompleteLesson(lessonId)

SpecProgress == InitProgress /\ [][NextProgress]_vars

LessonCounts == {0, 1, 2, 9, 10}

StreakDays == {0, 6, 7, 30}

InitAchievements ==
  /\ EnergyAtRest /\ ProgressAtRest /\ AchievementInit /\ SimilarityInit
  /\ QuestionAtRest
  /\ ComboAtRest
  /\ LessonsAtRest
  /\ GameAtRest

\* The unlock times that differ in kind: 0, which is falsy, and two later ones.
AchievementTimes == { t \in Times : t <= MsPerHour \div 2 }

NextAchievements ==
  \/ \E t \in AchievementTimes : TickTo(t)
  \/ \E lessonCount \in LessonCounts : CheckLessonCompletion(lessonCount)
  \/ \E streakDays \in StreakDays : CheckStreak(streakDays)
  \/ \E id \in AchievementIds : Unlock(id)

SpecAchievements == InitAchievements /\ [][NextAchievements]_vars

\* The tracker driven through its two checks only.
NextTracker ==
  \/ \E t \in AchievementTimes : TickTo(t)
  \/ \E lessonCount \in LessonCounts : CheckLessonCompletion(lessonCount)
  \/ \E streakDays \in StreakDays : CheckStreak(streakDays)

SpecTracker == InitAchievements /\ [][NextTracker]_vars

MaxAnswers == 7

\* Base points: what a question pays (0 to 20), and odd and larger numbers.
BasePoints == {0, 1, 5, 10, 15, 20, 33}

InitCombo ==
  /\ EnergyAtRest /\ ProgressAtRest /\ AchievementsAtRest /\ SimilarityInit
  /\ QuestionAtRest
  /\ ComboInit
  /\ LessonsAtRest
  /\ GameAtRest

NextCombo ==
  \/ \E isCorrect \in BOOLEAN :
       Len(answered) < MaxAnswers /\ ComboRecordAnswer(isCorrect)
  \/ \E basePoints \in BasePoints : ComboCalculatePoints(basePoints)

SpecCombo == InitCombo /\ [][NextCombo]_vars

MaxLessons == 2

PathIds == {"beginner", "travel"}

RECURSIVE LessonListsOfLen(_)
LessonListsOfLen(n) ==
  IF n = 0 THEN {<<>>}
  ELSE { Append(l, x) : l \in LessonListsOfLen(n - 1), x \in LessonIds }

\* The lessons of a path: up to MaxLessons ids, repeats included.
LessonLists == UNION { LessonListsOfLen(n) : n \in 0..MaxLessons }

\* The completedLessons arguments: no id, one, two in either order, and an
\* id that no lesson has.
CompletedLists ==
  { <<>>, <<"greetings-1">>, <<"phrases-1">>, <<"greetings-1", "phrases-1">>,
    <<"phrases-1", "greetings-1">>, <<"numbers-1">>,
    <<"numbers-1", "greetings-1">>, <<"phrases-1", "numbers-1">> }

InitLessons ==
  /\ EnergyAtRest /\ ProgressAtRest /\ AchievementsAtRest /\ SimilarityInit
  /\ QuestionAtRest
  /\ ComboAtRest
  /\ LessonManagerInit
  /\ GameAtRest

NextLessons ==
  \/ \E pathId \in PathIds, pathLessons \in LessonLists :
       AddSkillPath(pathId, pathLessons)
  \/ \E p \in 1..Cardinality(PathIds), lessonId \in ProgressLessonIds,
        completed \in CompletedLists :
       IsLessonUnlocked(p, lessonId, completed)
  \/ \E completed \in CompletedLists : GetNextLesson(completed)

SpecLessons == InitLessons /\ [][NextLessons]_vars

\* The clock of a game: it starts at 0 and may move to noon of the next day.
GameTimes == { Midnight(1) + 12 * MsPerHour }

\* questionIndex: negative, in range for both lessons, and in range for the
\* first lesson only.
QuestionIndexes == (0 - 1)..2

InitGame ==
  /\ EnergyAtRest /\ ProgressAtRest /\ AchievementsAtRest /\ SimilarityInit
  /\ QuestionAtRest
  /\ ComboAtRest
  /\ LessonsAtRest
  /\ GameAtRest

NextGame ==
  \/ \E t \in GameTimes : TickTo(t)
  \/ \E lessonId \in ProgressLessonIds, questionIndex \in QuestionIndexes,
        userAnswer \in GameAnswerTexts :
       AnswerQuestion(lessonId, questionIndex, userAnswer)

SpecGame == InitGame /\ [][NextGame]_vars

MaxStrLen == 3

Alphabet == {"a", "b", "c"}

RECURSIVE StringsOfLen(_)
StringsOfLen(n) ==
  IF n = 0 THEN {""}
  ELSE { s \o c : s \in StringsOfLen(n - 1), c \in Alphabet }

\* Every string over the alphabet up to the length bound, and the words of
\* the tests and the lessons, with a typo each.
SimilarityInputs ==
  UNION { StringsOfLen(n) : n \in 0..MaxStrLen }
    \cup {"abc", "abd", "goodbye", "goodby", "godbey", "bye"}

InitSimilarity ==
  /\ EnergyAtRest /\ ProgressAtRest /\ AchievementsAtRest /\ SimilarityInit
  /\ QuestionAtRest
  /\ ComboAtRest
  /\ LessonsAtRest
  /\ GameAtRest

\* calculateSimilarity reads nothing but its arguments: one call per
\* behaviour covers every call.
NextSimilarity ==
  \E a, b \in SimilarityInputs : similarity = NoFraction /\ CalculateSimilarity(a, b)

SpecSimilarity == InitSimilarity /\ [][NextSimilarity]_vars

MaxAccepted == 2

RECURSIVE ListsOfLen(_, _)
ListsOfLen(S, n) ==
  IF n = 0 THEN {<<>>}
  ELSE { Append(l, x) : l \in ListsOfLen(S, n - 1), x \in S }

ListsUpTo(S, n) == UNION { ListsOfLen(S, k) : k \in 0..n }

\* Choice texts: plain, in capitals, and with a space before or after.
ChoiceTexts == {"Hello", "BYE", " Hello", "Thank you "}

\* Accepted translations: of the length where one typo passes (7 and more),
\* shorter, one that is a typo of another, with spaces and capitals, empty.
TranslationTexts == {"goodbye", "goodbyes", "bye", " Good Bye ", "Hello", ""}

\* Accepted answers and configured correct answers of fill-in-the-blank.
BlankTexts == {"Hello", "Hi", " went", "walked"}

\* Prompt texts: with and without the markers, a marker inside a word, a
\* marker with a capital.
PromptTexts ==
  {"I ___ to the store yesterday", "I ___ there long ago", "___ in Chicago",
   "Yesterday I ___", "_____, how are you today?"}

\* Every list of choices with the default difficulty, and the lesson's
\* choices with every difficulty.
MultipleChoiceQuestions ==
  { MultipleChoiceQuestion("What is a common way to greet someone?", c, i, Absent) :
      c \in { l \in ListsUpTo(ChoiceTexts, MaxAccepted) : Len(l) > 0 },
      i \in 0..(MaxAccepted - 1) }
    \cup { MultipleChoiceQuestion("What is a common way to greet someone?",
                                  <<"Hello", "Goodbye", "Thank you", "Sorry">>, 0, d) :
             d \in DifficultyArgs }

\* Every list of translations with the default difficulty, and the lesson's
\* translations with every difficulty.
TranslationQuestions ==
  { TranslationQuestion("How do you say it in English?", l, Absent) :
      l \in ListsUpTo(TranslationTexts, MaxAccepted) }
    \cup { TranslationQuestion("How do you say it in English?",
                               <<"goodbye", "bye">>, d) : d \in DifficultyArgs }

\* Every prompt, configured answer and list of accepted answers with the
\* default difficulty, and the lesson's question with every difficulty.
FillInBlankQuestions ==
  { FillInBlankQuestion(t, c, l, Absent) :
      t \in PromptTexts, c \in {"Hello", "went"},
      l \in ListsUpTo(BlankTexts, MaxAccepted) }
    \cup { FillInBlankQuestion("_____, how are you today?", "Hello",
                               <<"Hello", "Hi">>, d) : d \in DifficultyArgs }

\* The questions a program can construct: the correct index names a choice.
Questions ==
  { q \in MultipleChoiceQuestions : q.correctIndex < Len(q.choices) }
    \cup TranslationQuestions \cup FillInBlankQuestions

\* Answers to multiple choice: the choices in other spellings, with spaces
\* around them, one letter short, and a wrong choice.
ChoiceAnswers ==
  {"", " ", "Hello", "hello", " hello ", " Hello", "HELLO ", "helo", "bye", "Bye",
   "by", "thank you", "Thank you ", "goodbye"}

\* Answers to translation: the translations in other spellings, one, two and
\* three edits away, with a space inside, short ones, and one of six letters
\* with a letter too many.
TranslationAnswers ==
  {"", " ", "goodbye", " GoodBye", "goodby", "godbey", "goodbyes", "good bye",
   "Good  Bye", "bye", "by", "hello", "HELLO ", "helo", "helloo"}

\* Answers to fill-in-the-blank: the accepted answers in other spellings,
\* with spaces around them, and one letter short.
BlankAnswers ==
  {"", "Hello", "hello", " hello ", "helo", "hi", " hi", "Hi ", "went", " went",
   "walked", "walke"}

Answers == ChoiceAnswers \cup TranslationAnswers \cup BlankAnswers

InitQuestions ==
  /\ EnergyAtRest /\ ProgressAtRest /\ AchievementsAtRest /\ SimilarityInit
  /\ question \in Questions
  /\ answer = ""
  /\ isFirstTry = Absent
  /\ result = NoResult
  /\ ComboAtRest
  /\ LessonsAtRest
  /\ GameAtRest

\* checkAnswer reads nothing but the question and its arguments and changes
\* nothing: one call per question object covers every call.
NextQuestions ==
  \/ \E a \in ChoiceAnswers, firstTry \in FirstTryArgs :
       result = NoResult /\ CheckAnswer("MultipleChoice", a, firstTry)
  \/ \E a \in TranslationAnswers, firstTry \in FirstTryArgs :
       result = NoResult /\ CheckAnswer("Translation", a, firstTry)
  \/ \E a \in BlankAnswers, firstTry \in FirstTryArgs :
       result = NoResult /\ CheckAnswer("FillInBlank", a, firstTry)

SpecQuestions == InitQuestions /\ [][NextQuestions]_vars

(***************************************************************************)
(* Properties of EnergySystem                                              *)
(***************************************************************************)

\* C1: whatever calls were made (recordAnswer, regenerate with any timestamp,
\* also one before lastUpdate, refill), currentEnergy is an integer between 0
\* and maxEnergy.
C1_EnergyWithinBounds ==
  /\ currentEnergy \in Int
  /\ 0 <= currentEnergy
  /\ currentEnergy <= maxEnergy

\* A regenerate whose elapsed hours exceed the missing energy has run, and
\* the energy stands at the maximum.
C1_Witness ==
  /\ eop.op = "regenerate"
  /\ eop.preEnergy < maxEnergy
  /\ eop.preEnergy + ((eop.arg - eop.preUpdate) \div MsPerHour) > maxEnergy
  /\ currentEnergy = maxEnergy

\* The whole hours between the pre-state's lastUpdate and the argument of
\* the last call.
C5_Hours == (eop.arg - eop.preUpdate) \div MsPerHour

\* C5: regenerate(now) changes nothing at full energy; otherwise with
\* h = floor((now - lastUpdate) / 3600000), h >= 1 gives energy
\* min(maxEnergy, energy + h) and lastUpdate = now, and h < 1 changes nothing.
\* From 3 after exactly one hour the energy is 4; from 4 after ten hours it
\* is 5 (maximum 5).
C5_RegenerateEffect ==
  eop.op = "regenerate" =>
    /\ eop.preEnergy = maxEnergy =>
          currentEnergy = eop.preEnergy /\ lastUpdate = eop.preUpdate
    /\ (eop.preEnergy # maxEnergy /\ C5_Hours >= 1) =>
          /\ currentEnergy = Min(maxEnergy, eop.preEnergy + C5_Hours)
          /\ lastUpdate = eop.arg
    /\ (eop.preEnergy # maxEnergy /\ C5_Hours < 1) =>
          currentEnergy = eop.preEnergy /\ lastUpdate = eop.preUpdate
    /\ (maxEnergy = 5 /\ eop.preEnergy = 3 /\ eop.arg - eop.preUpdate = 3600000) =>
          currentEnergy = 4
    /\ (maxEnergy = 5 /\ eop.preEnergy = 4 /\ eop.arg - eop.preUpdate = 36000000) =>
          currentEnergy = 5

\* regenerate ran ten hours after the last update with energy 4 of 5.
C5_Witness ==
  /\ eop.op = "regenerate"
  /\ maxEnergy = 5
  /\ eop.preEnergy = 4
  /\ eop.arg - eop.preUpdate = 36000000
  /\ currentEnergy = 5
  /\ lastUpdate = eop.arg

(***************************************************************************)
(* Properties of UserProgress                                              *)
(***************************************************************************)
C2_Thresholds == <<0, 100, 250, 500, 1000, 2000, 4000, 8000>>

\* C2: after any addXP calls, accepted or rejected, level is i+1 for the
\* largest (0-based) index i with xp >= THRESHOLDS[i]; it lies in 1..8 and is
\* 8 for every xp >= 8000.
C2_LevelFromXP ==
  /\ level \in 1..8
  /\ xp >= C2_Thresholds[level]
  /\ \A j \in 1..8 : xp >= C2_Thresholds[j] => j <= level
  /\ xp >= 8000 => level = 8

\* A rejected addXP has just returned with xp above the last threshold.
C2_Witness ==
  /\ pop.op = "addXP"
  /\ pop.threw
  /\ xp > 8000
  /\ level = 8

\* C3: recordActivity compares calendar days only: the first call sets
\* streak to 1; the same day leaves it; the next calendar day adds 1; any other
\* day (two or more later, or earlier) sets it to 1; and lastActivityDate is
\* the calendar day of the call afterwards.
C3_RecordActivityByCalendarDay ==
  pop.op = "recordActivity" =>
    LET d == DayOf(pop.arg) IN
    /\ lastActivityDate # NoDate
    /\ DayOf(lastActivityDate) = d
    /\ IF pop.preLast = NoDate THEN streak = 1
       ELSE IF DayOf(pop.preLast) = d THEN streak = pop.preStreak
       ELSE IF DayOf(pop.preLast) + 1 = d THEN streak = pop.preStreak + 1
       ELSE streak = 1

\* What C3 says, in a zone where every local day has 24 hours.
C3_InZoneWithoutClockChange ==
  tz.day = NoDate => C3_RecordActivityByCalendarDay

(***************************************************************************)
(* Properties of Achievement and AchievementTracker                        *)
(***************************************************************************)
C4_TimesListed(a) ==
  Cardinality({ i \in DOMAIN getUnlockedAchievements :
                  getUnlockedAchievements[i].id = a })

\* C4: an achievement once unlocked stays unlocked through every later
\* checkLessonCompletion, checkStreak and unlock call, whatever the argument;
\* it is listed exactly once by getUnlockedAchievements and its unlock time is
\* still the time of the first unlock.
C4_UnlockOnce ==
  \A a \in AchievementIds :
    firstUnlock[a] # Null =>
      /\ unlocked[a]
      /\ unlockedAt[a] = firstUnlock[a]
      /\ getUnlockedAt(a) = firstUnlock[a]
      /\ C4_TimesListed(a) = 1

\* checkLessonCompletion has met the threshold of first-lesson again, later
\* than the time first-lesson was unlocked.
C4_Witness ==
  /\ aop.op = "checkLessonCompletion"
  /\ aop.arg >= 1
  /\ aop.preUnlocked["first-lesson"]
  /\ firstUnlock["first-lesson"] # Null
  /\ now > firstUnlock["first-lesson"]

(***************************************************************************)
(* Properties of the similarity function                                   *)
(***************************************************************************)

Checked(variant) == question.variant = variant /\ result # NoResult

\* trim and lower-case, the normal form the claims speak of
C7_Normal(s) == toLowerCase(trim(s))

\* The answer equals the entry or is similar to it, by the similarity function.
C7_MatchesBySimilarity(n, e) ==
  \/ n = e
  \/ 100 * calculateSimilarity(n, e).num >= 85 * calculateSimilarity(n, e).den

\* The same in whole numbers: 20 * editDistance <= 3 * max(length) for
\* non-empty unequal strings.
C7_MatchesByDistance(n, e) ==
  \/ n = e
  \/ /\ Len(n) > 0
     /\ Len(e) > 0
     /\ 20 * levenshteinDistance(n, e) <= 3 * Max(Len(n), Len(e))

\* C7: TranslationQuestion.checkAnswer is correct exactly when some accepted
\* translation equals the answer after trim and lower-casing or has similarity
\* of at least 0.85 to it; otherwise the result is incorrect with 0 points, and
\* correctAnswer and the quoted feedback are the first accepted translation.
C7_TranslationAccepts ==
  Checked("Translation") =>
    LET n == C7_Normal(answer)
        acc == question.accepted
    IN /\ result.isCorrect <=>
            \E i \in 1..Len(acc) : C7_MatchesBySimilarity(n, C7_Normal(acc[i]))
       /\ result.isCorrect <=>
            \E i \in 1..Len(acc) : C7_MatchesByDistance(n, C7_Normal(acc[i]))
       /\ ~result.isCorrect =>
            /\ result.points = 0
            /\ Len(acc) > 0 =>
                  /\ result.correctAnswer = <<acc[1]>>
                  /\ result.feedback = "Not quite. Expected: " \o acc[1]

\* An answer one edit away from an accepted translation of 7 characters was
\* accepted, and one two edits away was rejected with the first entry quoted.
C7_Witness ==
  /\ Checked("Translation")
  /\ question.accepted = <<"goodbye", "bye">>
  /\ answer = "goodby"
  /\ result.isCorrect

C7_WitnessRejected ==
  /\ Checked("Translation")
  /\ question.accepted = <<"goodbye", "bye">>
  /\ answer = "godbey"
  /\ ~result.isCorrect
  /\ result.correctAnswer = <<"goodbye">>

\* The entries that match the normalized answer, exactly or fuzzily.
C8_Matching ==
  { i \in 1..Len(question.accepted) :
      C7_MatchesBySimilarity(C7_Normal(answer), C7_Normal(question.accepted[i])) }

C8_First == CHOOSE i \in C8_Matching : \A k \in C8_Matching : i <= k

\* C8: the first accepted translation, in list order, that matches the
\* normalized answer exactly or fuzzily decides: an exact match there gives
\* 'Correct!' without the typo note, a fuzzy one gives the 'minor typo' note,
\* whatever the later entries are.
C8_FirstMatchDecides ==
  (Checked("Translation") /\ C8_Matching # {}) =>
    /\ result.isCorrect
    /\ IF C7_Normal(answer) = C7_Normal(question.accepted[C8_First])
         THEN result.feedback = "Correct!"
         ELSE /\ includes(result.feedback, "minor typo")
              /\ result.feedback = "Correct! (Note: minor typo detected)"

\* The first entry matches only fuzzily and a later entry matches exactly:
\* the typo note is given.
C8_Witness ==
  /\ Checked("Translation")
  /\ question.accepted = <<"goodbye", "goodbyes">>
  /\ answer = "goodbyes"
  /\ includes(result.feedback, "minor typo")

\* C9: MultipleChoiceQuestion.checkAnswer is correct exactly when the
\* trimmed, lower-cased answer equals the trimmed, lower-cased text of the
\* choice at correctIndex; when incorrect, points is 0, correctAnswer is the
\* original text of that choice and the feedback contains it.
C9_MultipleChoiceNormalized ==
  Checked("MultipleChoice") =>
    LET choice == question.choices[question.correctIndex + 1] IN
    /\ result.isCorrect <=> C7_Normal(answer) = C7_Normal(choice)
    /\ ~result.isCorrect =>
         /\ result.points = 0
         /\ result.correctAnswer = <<choice>>
         /\ includes(result.feedback, choice)

\* C9, amended: the answer is trimmed and lower-cased, the choice at
\* correctIndex is lower-cased only; when incorrect, points is 0, correctAnswer
\* is the original text of that choice and the feedback contains it.
C9_ChoiceLowerCasedOnly ==
  Checked("MultipleChoice") =>
    LET choice == question.choices[question.correctIndex + 1] IN
    /\ result.isCorrect <=> C7_Normal(answer) = toLowerCase(choice)
    /\ ~result.isCorrect =>
         /\ result.points = 0
         /\ result.correctAnswer = <<choice>>
         /\ includes(result.feedback, choice)

\* The correct choice begins with a space; the choice itself, submitted as
\* the answer, was judged incorrect and returned as correctAnswer.
C9_Witness ==
  /\ Checked("MultipleChoice")
  /\ question.choices[question.correctIndex + 1] = " Hello"
  /\ answer = " Hello"
  /\ ~result.isCorrect
  /\ result.correctAnswer = <<" Hello">>

\* C10: FillInBlankQuestion.checkAnswer is correct exactly when the trimmed,
\* lower-cased answer equals the lower-cased form of some accepted answer (an
\* answer one edit away is rejected); when incorrect, points is 0 and the
\* feedback is the past-tense hint if the prompt contains 'yesterday' or
\* 'ago', and names the configured correct answer otherwise.
C10_FillInBlankExact ==
  Checked("FillInBlank") =>
    /\ result.isCorrect <=>
         \E i \in 1..Len(question.accepted) :
           C7_Normal(answer) = toLowerCase(question.accepted[i])
    /\ ~result.isCorrect =>
         /\ result.points = 0
         /\ IF includes(question.text, "yesterday") \/ includes(question.text, "ago")
              THEN result.feedback = "Hint: Check the past tense form."
              ELSE /\ includes(result.feedback, question.correctAnswer)
                   /\ result.feedback =
                        "Incorrect. The correct answer is: " \o question.correctAnswer

\* An answer one edit away from the only accepted answer was rejected, on a
\* prompt that holds 'ago' inside a word: the hint is the past-tense one.
C10_Witness ==
  /\ Checked("FillInBlank")
  /\ question.accepted = <<"walked">>
  /\ question.text = "___ in Chicago"
  /\ answer = "walke"
  /\ ~result.isCorrect
  /\ result.feedback = "Hint: Check the past tense form."

\* The points table of the claim, by difficulty.
C11_BasePoints(d) ==
  CASE d = "easy" -> 5
    [] d = "medium" -> 10
    [] d = "hard" -> 15

\* C11: for every variant, difficulty and answer, the points of the result
\* are 0 when it is incorrect and basePoints(difficulty) plus 5 on a first try
\* when it is correct, with basePoints 5 / 10 / 15 for easy / medium / hard;
\* a call without isFirstTry counts as not a first try and a question built
\* without a difficulty is a medium one.
C11_PointsByDifficulty ==
  /\ result # NoResult =>
       result.points =
         IF ~result.isCorrect THEN 0
         ELSE C11_BasePoints(question.difficulty)
                + (IF isFirstTry = Present(TRUE) THEN 5 ELSE 0)
  /\ MultipleChoiceQuestion("", <<"Hello">>, 0, Absent).difficulty = "medium"
  /\ TranslationQuestion("", <<"goodbye">>, Absent).difficulty = "medium"
  /\ FillInBlankQuestion("", "Hello", <<"Hello">>, Absent).difficulty = "medium"

\* A hard fill-in-the-blank question answered correctly on the first try
\* paid 20 points.
C11_Witness ==
  /\ Checked("FillInBlank")
  /\ question.difficulty = "hard"
  /\ isFirstTry = Present(TRUE)
  /\ result.isCorrect
  /\ result.points = 20

\* A correct answer judged without the isFirstTry argument paid the base
\* points of the default difficulty.
C11_WitnessDefaults ==
  /\ Checked("Translation")
  /\ question.difficulty = "medium"
  /\ isFirstTry = Absent
  /\ result.isCorrect
  /\ result.points = 10

\* toUpperCase of one character
C12_UpperChar(c) ==
  IF \E i \in 1..Len(LowerCase) : charAt(LowerCase, i) = c
    THEN charAt(UpperCase, CHOOSE i \in 1..Len(LowerCase) : charAt(LowerCase, i) = c)
    ELSE c

RECURSIVE C12_ToUpperCase(_)
C12_ToUpperCase(s) ==
  IF s = "" THEN ""
  ELSE C12_UpperChar(charAt(s, 1)) \o C12_ToUpperCase(SubSeq(s, 2, Len(s)))

\* The answer in capitals with whitespace added on both sides, in small
\* letters with whitespace added in front, and trimmed in small letters.
C12_Respellings(a) ==
  {"  " \o C12_ToUpperCase(a) \o " ", " " \o toLowerCase(a), C7_Normal(a)}

\* C12: for each of the three variants, checkAnswer gives the same result
\* for an answer and for that answer with leading or trailing whitespace
\* added and its letters changed in case.
C12_AnswerSpellingIgnored ==
  result # NoResult =>
    \A b \in C12_Respellings(answer) : checkAnswer(question, b, isFirstTry) = result

\* An accepted translation written with a leading space and capitals was
\* judged correct, as its plain spelling is.
C12_Witness ==
  /\ Checked("Translation")
  /\ question.accepted = <<"goodbye", "bye">>
  /\ answer = " GoodBye"
  /\ result.isCorrect
  /\ result = checkAnswer(question, "goodbye", isFirstTry)

(***************************************************************************)
(* Properties of the similarity of two strings                             *)
(***************************************************************************)
RECURSIVE C13_EditDistance(_, _)
\* The edit distance by its definition: the least number of insertions,
\* deletions and substitutions of one character that turn a into b.
C13_EditDistance(a, b) ==
  IF a = "" THEN Len(b)
  ELSE IF b = "" THEN Len(a)
  ELSE LET ta == SubSeq(a, 2, Len(a))
           tb == SubSeq(b, 2, Len(b))
       IN IF charAt(a, 1) = charAt(b, 1) THEN C13_EditDistance(ta, tb)
          ELSE 1 + Min3(C13_EditDistance(ta, b), C13_EditDistance(a, tb),
                        C13_EditDistance(ta, tb))

\* Two fractions of positive denominator are the same number.
C13_SameNumber(f, g) == f.num * g.den = g.num * f.den

\* C13: for two non-empty strings the similarity is
\* 1 - d / max(len(a), len(b)) with d the unit-cost edit distance, which
\* levenshteinDistance computes; the similarity lies in [0, 1], is 1 for equal
\* strings, is the same with the arguments exchanged, and is 2/3 for 'abc'
\* and 'abd'.
C13_SimilarityByEditDistance ==
  similarity # NoFraction =>
    LET longest == Max(Len(str1), Len(str2)) IN
    /\ (Len(str1) > 0 /\ Len(str2) > 0) =>
          /\ levenshteinDistance(str1, str2) = C13_EditDistance(str1, str2)
          /\ C13_SameNumber(similarity,
                            Fraction(longest - C13_EditDistance(str1, str2), longest))
    /\ similarity.den > 0
    /\ 0 <= similarity.num
    /\ similarity.num <= similarity.den
    /\ str1 = str2 => similarity.num = similarity.den
    /\ C13_SameNumber(similarity, calculateSimilarity(str2, str1))
    /\ (str1 = "abc" /\ str2 = "abd") => C13_SameNumber(similarity, Fraction(2, 3))

\* The similarity of 'goodbye' and 'godbey', three edits apart, was computed.
C13_Witness ==
  /\ str1 = "goodbye"
  /\ str2 = "godbey"
  /\ similarity = Fraction(4, 7)

\* The similarity of 'abc' and 'abd' was computed.
C13_WitnessExample ==
  /\ str1 = "abc"
  /\ str2 = "abd"
  /\ similarity = Fraction(2, 3)

(***************************************************************************)
(* Properties of UserProgress as a whole                                   *)
(***************************************************************************)
\* The last call left every field of the UserProgress as it was.
C14_NothingChanged ==
  /\ xp = pop.preXp
  /\ level = pop.preLevel
  /\ streak = pop.preStreak
  /\ lastActivityDate = pop.preLast
  /\ completedLessons = pop.preLessons

\* C14: addXP with a negative amount fails with an error and leaves xp,
\* level, streak, lastActivityDate and completedLessons unchanged; addXP(0)
\* is accepted, changes nothing and returns false.
C14_NegativeXPRejected ==
  pop.op = "addXP" =>
    /\ pop.arg < 0 => (pop.threw /\ C14_NothingChanged)
    /\ pop.arg = 0 => (~pop.threw /\ ~pop.ret /\ C14_NothingChanged)

\* A negative amount was rejected on a UserProgress that had XP, a streak
\* of two days and a completed lesson.
C14_Witness ==
  /\ pop.op = "addXP"
  /\ pop.arg < 0
  /\ pop.threw
  /\ xp = 250
  /\ streak = 2
  /\ completedLessons = <<"phrases-1">>

\* addXP(0) was accepted on a UserProgress that had XP.
C14_WitnessZero ==
  /\ pop.op = "addXP"
  /\ pop.arg = 0
  /\ ~pop.threw
  /\ xp = 4000

\* C15: in every reachable state xp >= 0 and xp is the sum of the amounts of
\* the addXP calls that succeeded; no operation (addXP, rejected or not,
\* recordActivity, completeLesson) ever decreases xp or level.
C15_XPNeverDecreases ==
  /\ [](xp >= 0 /\ xp = awarded)
  /\ [][xp' >= xp /\ level' >= level]_vars

\* After two awards, activity on two days and a completed lesson, a
\* negative amount was rejected and xp is still the sum of the two awards.
C15_Witness ==
  /\ xp = 4250
  /\ level = 7
  /\ pop.op = "addXP"
  /\ pop.threw
  /\ streak = 2
  /\ Len(completedLessons) = 1

\* C16: addXP returns true exactly when the level after the call is greater
\* than the level before it, also when several thresholds are crossed at
\* once; from xp 0, addXP(50) returns false and a second addXP(50) returns
\* true.
C16_ReturnsLevelUp ==
  (pop.op = "addXP" /\ ~pop.threw) =>
    /\ pop.ret <=> level > pop.preLevel
    /\ (pop.preXp = 0 /\ pop.arg = 50) => ~pop.ret
    /\ (pop.preXp = 50 /\ pop.arg = 50) => pop.ret

\* The second addXP(50) crossed the threshold of 100 and returned true.
C16_Witness ==
  /\ pop.op = "addXP"
  /\ pop.preXp = 50
  /\ pop.arg = 50
  /\ xp = 100
  /\ level = 2
  /\ pop.ret

\* One call crossed the thresholds of 100, 250, 500 and 1000 and returned true.
C16_WitnessSeveral ==
  /\ pop.op = "addXP"
  /\ pop.preXp = 0
  /\ pop.arg = 1000
  /\ pop.preLevel = 1
  /\ level = 5
  /\ pop.ret

(***************************************************************************)
(* Properties of ComboSystem                                               *)
(***************************************************************************)
RECURSIVE C17_Run(_)
\* The number of correct answers at the end of a history.
C17_Run(h) ==
  IF h = <<>> \/ ~h[Len(h)] THEN 0 ELSE 1 + C17_Run(SubSeq(h, 1, Len(h) - 1))

\* The largest value the combo has had over a history, 0 at construction.
C17_Peak(h) ==
  LET runs == { C17_Run(SubSeq(h, 1, k)) : k \in 0..Len(h) }
  IN CHOOSE m \in runs : \A r \in runs : r <= m

\* C17: after any sequence of recordAnswer calls currentCombo is the number
\* of correct answers since the last incorrect one (or since construction)
\* and highestCombo is the largest value currentCombo has ever had;
\* highestCombo never decreases, and an incorrect answer leaves it unchanged
\* and sets currentCombo to 0.
C17_ComboCounts ==
  /\ [](/\ currentCombo = C17_Run(answered)
        /\ highestCombo = C17_Peak(answered))
  /\ [][highestCombo' >= highestCombo]_vars
  /\ [][(Len(answered') > Len(answered) /\ ~answered'[Len(answered')]) =>
          (highestCombo' = highestCombo /\ currentCombo' = 0)]_vars

\* After five correct answers, an incorrect one and one more correct one the
\* combo is 1 and the highest combo is 5.
C17_Witness ==
  /\ answered = <<TRUE, TRUE, TRUE, TRUE, TRUE, FALSE, TRUE>>
  /\ currentCombo = 1
  /\ highestCombo = 5

\* Twice the multiplier of the claim for a combo.
C18_TwiceMultiplier(combo) ==
  CASE combo <= 2 -> 2
    [] combo \in 3..4 -> 3
    [] combo >= 5 -> 4

\* C18: getMultiplier() is 2.0 from combo 5 on, 1.5 at combo 3 and 4 and
\* 1.0 up to combo 2; calculatePoints(base) returns floor(base * multiplier),
\* that is base, floor(3 * base / 2) or 2 * base, and changes nothing in the
\* combo state; calculatePoints(10) is 15 at combo 3.
C18_MultiplierAndPoints ==
  /\ 2 * getMultiplier.num = C18_TwiceMultiplier(currentCombo) * getMultiplier.den
  /\ cop.op = "calculatePoints" =>
       /\ currentCombo = cop.preCombo
       /\ highestCombo = cop.preHighest
       /\ cop.ret = (cop.arg * C18_TwiceMultiplier(currentCombo)) \div 2
       /\ cop.ret = CASE currentCombo <= 2 -> cop.arg
                       [] currentCombo \in 3..4 -> (3 * cop.arg) \div 2
                       [] currentCombo >= 5 -> 2 * cop.arg
       /\ (currentCombo = 3 /\ cop.arg = 10) => cop.ret = 15

\* At combo 3, calculatePoints(5) returned 7: the half point was dropped.
C18_Witness ==
  /\ cop.op = "calculatePoints"
  /\ currentCombo = 3
  /\ cop.arg = 5
  /\ cop.ret = 7

\* At combo 5, calculatePoints(10) returned 20.
C18_WitnessDouble ==
  /\ cop.op = "calculatePoints"
  /\ currentCombo = 5
  /\ cop.arg = 10
  /\ cop.ret = 20

(***************************************************************************)
(* Properties of EnergySystem: the effect of recordAnswer, and the hours   *)
(* counted by two regenerate calls in a row                                *)
(***************************************************************************)
\* The step is a call of the named EnergySystem method: the clock stands
\* still and the call record names the method.
C19_IsCall(name) == now' = now /\ eop'.op = name

\* C19: recordAnswer(false) takes exactly 1 from currentEnergy and stamps
\* lastUpdate with the current time when currentEnergy > 0, and changes
\* neither when currentEnergy = 0; recordAnswer(true) never changes
\* currentEnergy or lastUpdate.
C19_RecordAnswerEffect ==
  [][C19_IsCall("recordAnswer") =>
       IF eop'.arg = 0 /\ currentEnergy > 0
         THEN /\ currentEnergy' = currentEnergy - 1
              /\ lastUpdate' = now
         ELSE /\ currentEnergy' = currentEnergy
              /\ lastUpdate' = lastUpdate]_vars

\* An incorrect answer took one energy and moved lastUpdate to the clock.
C19_Witness ==
  /\ eop.op = "recordAnswer"
  /\ eop.arg = 0
  /\ eop.preEnergy = 3
  /\ currentEnergy = 2
  /\ eop.preUpdate < now
  /\ lastUpdate = now

\* An incorrect answer at energy 0 changed nothing.
C19_WitnessEmpty ==
  /\ eop.op = "recordAnswer"
  /\ eop.arg = 0
  /\ eop.preEnergy = 0
  /\ currentEnergy = 0
  /\ maxEnergy > 0
  /\ lastUpdate = eop.preUpdate
  /\ lastUpdate < now

\* The last call was a regenerate that added energy.
C20_Added == eop.op = "regenerate" /\ currentEnergy > eop.preEnergy

\* C20: regeneration discards fractional hours.  A regenerate(t1) that adds
\* energy sets lastUpdate to t1 itself, so the next regenerate(t2) counts the
\* whole hours from t1: regenerate(t0 + 1.5h) then regenerate(t0 + 2h) add 1
\* in total where there is room, and a single regenerate(t0 + 2h) adds 2.
C20_FractionalHoursDiscarded ==
  /\ [](C20_Added => lastUpdate = eop.arg)
  /\ []((/\ eop.op = "regenerate"
          /\ eop.arg - eop.preUpdate = 2 * MsPerHour
          /\ eop.preEnergy + 2 <= maxEnergy) => currentEnergy = eop.preEnergy + 2)
  /\ [][(C20_Added /\ C19_IsCall("regenerate")) =>
          /\ currentEnergy' =
               Min(maxEnergy,
                   currentEnergy + Max(0, (eop'.arg - eop.arg) \div MsPerHour))
          /\ (/\ 2 * (eop.arg - eop.preUpdate) = 3 * MsPerHour
              /\ 2 * (eop'.arg - eop.arg) = MsPerHour
              /\ eop.preEnergy + 2 <= maxEnergy) =>
                currentEnergy' = eop.preEnergy + 1]_vars

\* With the clock at 0 throughout, lastUpdate is one and a half hours: set
\* by a regenerate(1.5h) that added energy.  The regenerate(2h) after it
\* added nothing, with room for more.
C20_Witness ==
  /\ now = 0
  /\ eop.op = "regenerate"
  /\ 2 * eop.preUpdate = 3 * MsPerHour
  /\ eop.arg = 2 * MsPerHour
  /\ lastUpdate = eop.preUpdate
  /\ currentEnergy = eop.preEnergy
  /\ currentEnergy + 1 <= maxEnergy

\* A single regenerate two hours after lastUpdate added 2.
C20_WitnessSingle ==
  /\ eop.op = "regenerate"
  /\ eop.preUpdate = 0
  /\ eop.arg = 2 * MsPerHour
  /\ currentEnergy = eop.preEnergy + 2

(***************************************************************************)
(* Properties of the AchievementTracker: thresholds and the unlocked list  *)
(***************************************************************************)
\* The step is a call of the named tracker method: the clock stands still
\* and the call record names the method.
C21_IsCall(name) == now' = now /\ aop'.op = name

\* The achievement is as it was: its flag and its unlock time.
C21_Untouched(a) == unlocked'[a] = unlocked[a] /\ unlockedAt'[a] = unlockedAt[a]

\* C21: the tracker starts with a catalog of exactly 4 locked achievements;
\* checkLessonCompletion(count) unlocks first-lesson iff count >= 1 and
\* ten-lessons iff count >= 10 and never changes week-streak or month-streak;
\* checkStreak(days) unlocks week-streak iff days >= 7 and month-streak iff
\* days >= 30 and never changes first-lesson or ten-lessons.
C21_UnlockThresholds ==
  /\ [](/\ [i \in DOMAIN Catalog |-> Catalog[i].id]
            = <<"first-lesson", "ten-lessons", "week-streak", "month-streak">>
        /\ aop.op = "new" => \A a \in AchievementIds : ~unlocked[a])
  /\ [][C21_IsCall("checkLessonCompletion") =>
          /\ unlocked'["first-lesson"] <=> (unlocked["first-lesson"] \/ aop'.arg >= 1)
          /\ unlocked'["ten-lessons"] <=> (unlocked["ten-lessons"] \/ aop'.arg >= 10)
          /\ C21_Untouched("week-streak")
          /\ C21_Untouched("month-streak")]_vars
  /\ [][C21_IsCall("checkStreak") =>
          /\ unlocked'["week-streak"] <=> (unlocked["week-streak"] \/ aop'.arg >= 7)
          /\ unlocked'["month-streak"] <=> (unlocked["month-streak"] \/ aop'.arg >= 30)
          /\ C21_Untouched("first-lesson")
          /\ C21_Untouched("ten-lessons")]_vars

\* checkLessonCompletion(9) ran after a week's streak was rewarded:
\* first-lesson is unlocked, ten-lessons is not, week-streak is as it was.
C21_Witness ==
  /\ aop.op = "checkLessonCompletion"
  /\ aop.arg = 9
  /\ unlocked["first-lesson"]
  /\ ~unlocked["ten-lessons"]
  /\ aop.preUnlocked["week-streak"]
  /\ unlocked["week-streak"]
  /\ ~unlocked["month-streak"]

\* The catalog ids of the unlocked achievements, in catalog order.
C22_UnlockedIds ==
  SelectSeq([i \in DOMAIN Catalog |-> Catalog[i].id], LAMBDA a : unlocked[a])

\* C22: getUnlockedAchievements() returns exactly the achievements that are
\* unlocked, in catalog order, and every entry carries an unlockedAt equal to
\* the time at which the achievement was first unlocked, whatever that time.
C22_ListCarriesUnlockTime ==
  LET list == getUnlockedAchievements IN
  /\ [i \in DOMAIN list |-> list[i].id] = C22_UnlockedIds
  /\ \A i \in DOMAIN list : list[i].unlockedAt = firstUnlock[list[i].id]

\* The same for achievements first unlocked at a time other than 0.
C22_ListCarriesNonZeroUnlockTime ==
  LET list == getUnlockedAchievements IN
  /\ [i \in DOMAIN list |-> list[i].id] = C22_UnlockedIds
  /\ \A i \in DOMAIN list :
       firstUnlock[list[i].id] # 0 => list[i].unlockedAt = firstUnlock[list[i].id]

(***************************************************************************)
(* Properties of UserProgress: the set of completed lessons                *)
(***************************************************************************)
\* No id is listed twice.
C23_NoDuplicates ==
  \A i, j \in DOMAIN getCompletedLessons :
    getCompletedLessons[i] = getCompletedLessons[j] => i = j

\* C23: completeLesson(id) is idempotent set insertion: getCompletedLessons()
\* lists each completed id exactly once, in the order of first insertion,
\* isLessonCompleted(id) is true exactly for the ids inserted, and completing
\* an id that is already completed changes nothing.
C23_CompleteLessonIdempotent ==
  /\ [](/\ C23_NoDuplicates
        /\ \A id \in ProgressLessonIds :
             isLessonCompleted(id) <=>
               \E i \in DOMAIN getCompletedLessons : getCompletedLessons[i] = id)
  /\ [](pop.op = "new" => getCompletedLessons = <<>>)
  /\ [][pop'.op = "completeLesson" =>
          /\ UNCHANGED <<xp, level, streak, lastActivityDate>>
          /\ IF pop'.arg \in Range(completedLessons)
               THEN completedLessons' = completedLessons
               ELSE completedLessons' = completedLessons \o <<pop'.arg>>]_vars
  /\ [][pop'.op # "completeLesson" => completedLessons' = completedLessons]_vars

\* phrases-1 was completed, then greetings-1, then phrases-1 again: the list
\* is as it was before the third call.
C23_Witness ==
  /\ pop.op = "completeLesson"
  /\ pop.arg = "phrases-1"
  /\ pop.preLessons = <<"phrases-1", "greetings-1">>
  /\ getCompletedLessons = <<"phrases-1", "greetings-1">>
  /\ isLessonCompleted("phrases-1")
  /\ ~isLessonCompleted("numbers-1")

(***************************************************************************)
(* The wall clock and the state of the EnergySystem                        *)
(***************************************************************************)
\* C25: every operation that uses the current time accepts it as an explicit
\* argument, so that the state after a call (lastUpdate included) follows
\* from the state before it and the call's arguments, whatever the wall
\* clock reads: a call leaves lastUpdate as it was or sets it to the time it
\* was given.
C25_StateFromArgumentsOnly ==
  [][now' = now =>
       \/ lastUpdate' = lastUpdate
       \/ eop'.op = "regenerate" /\ lastUpdate' = eop'.arg]_vars

\* regenerate(currentTime), the one operation with a time argument, is as
\* the claim says: its effect does not depend on the clock.
C25_RegenerateFromArgumentOnly ==
  [][C19_IsCall("regenerate") =>
       \/ lastUpdate' = lastUpdate
       \/ lastUpdate' = eop'.arg]_vars

(***************************************************************************)
(* Properties of LanguageLearningGame.answerQuestion                       *)
(***************************************************************************)
\* The step is a call of answerQuestion: the clock stands still.
C24_IsCall == now' = now /\ gop'.op = "answerQuestion"

\* The call cannot be served: no energy, no such lesson, or no such question.
C24_CannotServe(lessonId, questionIndex) ==
  IF currentEnergy = 0 \/ lessonId \notin LessonIds THEN TRUE
  ELSE questionIndex < 0 \/ questionIndex >= Len(GameQuestions[lessonId])

\* C24: answerQuestion fails with no state change at all (xp, level, streak,
\* completed lessons, combo, highest combo, energy, the per-question
\* correctness flags, achievements) when the energy is 0, when the lesson id
\* does not exist, or when the question index does not exist in the lesson
\* (negative or out of range).
C24_FailsWithoutStateChange ==
  [][C24_IsCall /\ C24_CannotServe(gop'.lessonId, gop'.questionIndex) =>
       /\ gop'.threw # ""
       /\ UNCHANGED <<xp, level, streak, lastActivityDate, completedLessons,
                      currentCombo, highestCombo, currentEnergy, lastUpdate,
                      questionResults, lessonCompleted, unlocked, unlockedAt>>]_vars

\* A negative index was refused in the middle of a game: XP, a combo, a used
\* energy and a completed lesson are all there and as they were.
C24_Witness ==
  /\ gop.threw = "Question not found"
  /\ gop.lessonId = "greetings-1"
  /\ gop.questionIndex = 0 - 1
  /\ xp > 0
  /\ currentCombo = 2
  /\ currentEnergy = 4
  /\ completedLessons = <<"phrases-1">>
  /\ unlocked["first-lesson"]

\* An unknown lesson was refused.
C24_WitnessNoLesson ==
  /\ gop.threw = "Lesson not found"
  /\ gop.lessonId = "numbers-1"
  /\ xp > 0

\* With the energy used up every call is refused, whatever it asks for.
C24_WitnessNoEnergy ==
  /\ gop.threw = NoEnergyError
  /\ gop.lessonId = "greetings-1"
  /\ gop.questionIndex = 0
  /\ currentEnergy = 0

\* The step is a call of answerQuestion that returned.
C26_Returned == C24_IsCall /\ gop'.threw = ""

\* The multiplier of a combo, as a fraction.
C26_Multiplier(k) ==
  IF k >= 5 THEN Fraction(2, 1) ELSE IF k >= 3 THEN Fraction(3, 2) ELSE Fraction(1, 1)

\* What a correct first-try answer to the question pays before the combo:
\* 5, 10 or 15 by difficulty, and the bonus of 5.
C26_FirstTryPoints(lessonId, questionIndex) ==
  LET d == GameQuestions[lessonId][questionIndex + 1].difficulty IN
  (IF d = "easy" THEN 5 ELSE IF d = "medium" THEN 10 ELSE 15) + 5

\* C26: within answerQuestion the combo is recorded before the points are
\* computed: the k-th consecutive correct answer is scored with the
\* multiplier of combo k, the combo returned is the combo after recording,
\* a correct answer raises XP by exactly the points returned, and three
\* correct answers to the easy lesson greetings-1 on a fresh game yield
\* points 10, 10, 15 and xp 35.
C26_ComboBeforePoints ==
  /\ [][C26_Returned =>
          /\ gop'.combo = currentCombo'
          /\ gop'.combo = C17_Run(answered')
          /\ gop'.isCorrect =>
               /\ gop'.combo = currentCombo + 1
               /\ gop'.points =
                    (C26_FirstTryPoints(gop'.lessonId, gop'.questionIndex)
                       * C26_Multiplier(gop'.combo).num)
                      \div C26_Multiplier(gop'.combo).den
               /\ xp' = xp + gop'.points]_vars
  /\ [](~questionResults["phrases-1"][1] /\ gop.threw = "" =>
          /\ answered = <<TRUE>> => gop.points = 10 /\ xp = 10
          /\ answered = <<TRUE, TRUE>> => gop.points = 10 /\ xp = 20
          /\ answered = <<TRUE, TRUE, TRUE>> => gop.points = 15 /\ xp = 35)

\* The third correct answer to greetings-1 on a fresh game.
C26_Witness ==
  /\ answered = <<TRUE, TRUE, TRUE>>
  /\ ~questionResults["phrases-1"][1]
  /\ gop.threw = ""
  /\ gop.lessonId = "greetings-1"
  /\ gop.combo = 3
  /\ gop.points = 15
  /\ xp = 35

\* C27: an incorrect answer sets the combo to 0, lowers the energy by exactly
\* 1, reports points 0 and leveledUp false, and leaves xp, level, streak, the
\* highest combo, the completed set and every per-question flag unchanged; a
\* correct answer leaves the energy unchanged.
C27_IncorrectAnswerFrame ==
  [][C26_Returned =>
       IF gop'.isCorrect
         THEN /\ currentEnergy' = currentEnergy
              /\ gop'.energy = currentEnergy
         ELSE /\ currentCombo' = 0
              /\ gop'.combo = 0
              /\ currentEnergy' = currentEnergy - 1
              /\ gop'.energy = currentEnergy - 1
              /\ gop'.points = 0
              /\ ~gop'.leveledUp
              /\ UNCHANGED <<xp, level, streak, highestCombo, completedLessons,
                             questionResults>>]_vars

\* An incorrect answer after two correct ones: the combo is gone, the
\* highest combo, the XP and the flags stay.
C27_Witness ==
  /\ gop.threw = ""
  /\ ~gop.isCorrect
  /\ answered = <<TRUE, TRUE, FALSE>>
  /\ currentCombo = 0
  /\ highestCombo = 2
  /\ currentEnergy = 4
  /\ xp = 20
  /\ questionResults["greetings-1"] = <<TRUE, TRUE, FALSE>>

\* Every question of the lesson has been answered correctly at least once.
C28_AllCorrectOnce(l) ==
  \A i \in DOMAIN GameQuestions[l] : <<l, i - 1>> \in correctOnce

\* The lesson after l in its skill path, Absent when l is the last one.
C28_Following(l) ==
  LET pathLessons == GameSkillPaths[1].lessons
      i == CHOOSE j \in DOMAIN pathLessons : pathLessons[j] = l
  IN IF i < Len(pathLessons) THEN Present(pathLessons[i + 1]) ELSE Absent

\* The step completes lesson l.
C28_Completes(l) ==
  C26_Returned /\ ~isLessonCompleted(l) /\ isLessonCompleted(l)'

\* C28, all but the next lesson: a lesson is in the completed set iff every
\* one of its questions has been answered correctly at least once; the call
\* that completes it marks the lesson completed, leaves streak >= 1 and, for
\* the first lesson completed, reports First Steps.
C28_CompletedIffAllCorrect ==
  /\ [](\A l \in LessonIds :
          /\ isLessonCompleted(l) <=> C28_AllCorrectOnce(l)
          /\ isLessonCompleted(l) <=> lessonCompleted[l])
  /\ [][\A l \in LessonIds :
          C28_Completes(l) =>
            /\ gop'.lessonId = l
            /\ lessonCompleted'[l]
            /\ streak' >= 1
            /\ completedLessons = <<>> =>
                 \E i \in DOMAIN gop'.newAchievements :
                   gop'.newAchievements[i] = "First Steps"]_vars

\* C28: as above, and the call that completes the first lesson to be
\* completed makes getGameState().nextLesson the following lesson of the
\* skill path.
C28_CompletionAdvancesNextLesson ==
  /\ C28_CompletedIffAllCorrect
  /\ [][\A l \in LessonIds :
          C28_Completes(l) /\ completedLessons = <<>> =>
            nextLesson' = C28_Following(l)]_vars

\* The same for a game that completes its lessons in the order of the path.
C28_InPathOrderAdvancesNextLesson ==
  [][\A l \in LessonIds :
       C28_Completes(l) /\ completedLessons = <<>> /\ l = "greetings-1" =>
         nextLesson' = C28_Following(l)]_vars

\* A completed lesson is first in its path or has the lesson before it
\* completed.
C29_CompletedInOrder(l) ==
  \A p \in DOMAIN skillPaths :
    arrayIncludes(skillPaths[p].lessons, l) =>
      isLessonUnlocked(skillPaths[p].lessons, l, getCompletedLessons)

\* C29, the skill path: isLessonUnlocked(id, completed) is true only for the
\* first lesson of the path or when the lesson before it is in completed.
C29_UnlockedOnlyInOrder ==
  lop.op = "isLessonUnlocked" /\ lop.ret = <<TRUE>> =>
    \E p \in DOMAIN skillPaths :
      /\ skillPaths[p].id = lop.path
      /\ \E i \in DOMAIN skillPaths[p].lessons :
           /\ skillPaths[p].lessons[i] = lop.id
           /\ i = 1 \/ skillPaths[p].lessons[i - 1] \in Range(lop.completed)

\* C29: in every reachable state of the game no lesson is completed while
\* locked: every completed lesson that is not first in its skill path has
\* the lesson before it completed as well.
C29_NoLessonCompletedWhileLocked ==
  \A l \in LessonIds : isLessonCompleted(l) => C29_CompletedInOrder(l)

(***************************************************************************)
(* Properties of LessonManager.getNextLesson                               *)
(***************************************************************************)
\* The places of the scan: path p, lesson i.
C30_Places ==
  UNION { { <<p, i>> : i \in DOMAIN skillPaths[p].lessons } : p \in DOMAIN skillPaths }

C30_IdAt(pl) == skillPaths[pl[1]].lessons[pl[2]]

C30_Before(a, b) == a[1] < b[1] \/ (a[1] = b[1] /\ a[2] <= b[2])

\* The first place of a set in scan order, as the id there; Absent for none.
C30_First(S) ==
  IF S = {} THEN Absent
  ELSE Present(C30_IdAt(CHOOSE a \in S : \A b \in S : C30_Before(a, b)))

\* The lesson at the place is unlocked: the first lesson of its path with
\* that id is the first of the path or follows a completed one.
C30_UnlockedAt(pl, completed) ==
  LET pathLessons == skillPaths[pl[1]].lessons
      first == CHOOSE i \in DOMAIN pathLessons :
                 /\ pathLessons[i] = C30_IdAt(pl)
                 /\ \A j \in 1..(i - 1) : pathLessons[j] # C30_IdAt(pl)
  IN first = 1 \/ pathLessons[first - 1] \in Range(completed)

C30_DistinctIds ==
  \A p \in DOMAIN skillPaths :
    \A i, j \in DOMAIN skillPaths[p].lessons :
      skillPaths[p].lessons[i] = skillPaths[p].lessons[j] => i = j

\* C30: getNextLesson(completed) returns the first lesson, scanning the skill
\* paths in insertion order and the lessons in path order, that is not in
\* completed and is unlocked; for paths with distinct lesson ids this is the
\* first lesson not in completed; and the result is undefined iff every
\* lesson of every skill path is in completed.
C30_NextLessonIsFirstOpen ==
  lop.op = "getNextLesson" =>
    LET open == { pl \in C30_Places : C30_IdAt(pl) \notin Range(lop.completed) } IN
    /\ lop.ret = C30_First({ pl \in open : C30_UnlockedAt(pl, lop.completed) })
    /\ C30_DistinctIds => lop.ret = C30_First(open)
    /\ lop.ret = Absent <=> open = {}

\* The first path is completed and the next lesson comes from the second.
C30_Witness ==
  /\ lop.op = "getNextLesson"
  /\ skillPaths = << [id |-> "beginner", lessons |-> <<"greetings-1">>],
                     [id |-> "travel", lessons |-> <<"phrases-1", "greetings-1">>] >>
  /\ lop.completed = <<"greetings-1">>
  /\ lop.ret = <<"phrases-1">>

\* Every lesson is completed and there is no next lesson.
C30_WitnessUndefined ==
  /\ lop.op = "getNextLesson"
  /\ Len(skillPaths) = 2
  /\ Len(skillPaths[1].lessons) = 2
  /\ lop.completed = <<"phrases-1", "greetings-1">>
  /\ lop.ret = Absent

(***************************************************************************)
(* Invariants of the ComboSystem and of the AchievementTracker             *)
(***************************************************************************)
\* C35: in every reachable state of the ComboSystem
\* 0 <= currentCombo <= highestCombo.
C35_ComboWithinHighest == 0 <= currentCombo /\ currentCombo <= highestCombo

\* The first correct answer after a miss: the combo is 1 again, below the
\* highest, and the answer before the miss had raised both together.
C35_Witness ==
  /\ answered = <<TRUE, TRUE, FALSE, TRUE>>
  /\ currentCombo = 1
  /\ highestCombo = 2

\* The very first correct answer: both are 1.
C35_WitnessFirst ==
  /\ answered = <<TRUE>>
  /\ currentCombo = 1
  /\ highestCombo = 1

\* Achievement lower is unlocked whenever higher is, and not later.
C36_TierOrder(lower, higher) ==
  unlocked[higher] =>
    /\ unlocked[lower]
    /\ unlockedAt[lower] # Null
    /\ unlockedAt[lower] <= unlockedAt[higher]

\* C36: in every reachable state of the tracker driven by
\* checkLessonCompletion and checkStreak, ten-lessons unlocked implies
\* first-lesson unlocked and month-streak unlocked implies week-streak
\* unlocked, the lower tier's unlock time not later than the higher tier's.
C36_LowerTierFirst ==
  /\ C36_TierOrder("first-lesson", "ten-lessons")
  /\ C36_TierOrder("week-streak", "month-streak")

\* Both tiers of both kinds are unlocked, each lower tier strictly earlier
\* than the higher one.
C36_Witness ==
  /\ unlocked["ten-lessons"]
  /\ unlocked["month-streak"]
  /\ unlockedAt["first-lesson"] < unlockedAt["ten-lessons"]
  /\ unlockedAt["week-streak"] < unlockedAt["month-streak"]

\* checkStreak(30) on a new tracker unlocks both streak tiers at once.
C36_WitnessAtOnce ==
  /\ aop.op = "checkStreak"
  /\ aop.arg = 30
  /\ ~aop.preUnlocked["week-streak"]
  /\ unlockedAt["week-streak"] = unlockedAt["month-streak"]
  /\ unlocked["month-streak"]

(***************************************************************************)
(* The day difference of recordActivity                                    *)
(***************************************************************************)
\* C40: the day difference recordActivity computes between two local
\* calendar dates is the number of calendar days between them, whatever the
\* length of the local days in between, so that activity on two consecutive
\* calendar dates always raises the streak by 1 and moves lastActivityDate.
C40_DayDifferenceIsCalendarDays ==
  pop.op = "recordActivity" /\ pop.preLast # NoDate =>
    /\ getDaysDifference(stripTime(pop.preLast), stripTime(pop.arg))
         = DayOf(pop.arg) - DayOf(pop.preLast)
    /\ DayOf(pop.arg) = DayOf(pop.preLast) + 1 =>
         /\ streak = pop.preStreak + 1
         /\ lastActivityDate = stripTime(pop.arg)

\* The same where every local day has 24 hours.
C40_WithoutClockChange == tz.day = NoDate => C40_DayDifferenceIsCalendarDays

(***************************************************************************)
(* More properties of LanguageLearningGame.answerQuestion                  *)
(***************************************************************************)
\* C31: answerQuestion checks energy, then the lesson, then the question, and
\* reports the first check that fails: with zero energy the no-energy error
\* even if the lesson id or the index is invalid too, and with energy and an
\* unknown lesson id the lesson-not-found error whatever the index.
C31_FirstFailureReported ==
  [][C24_IsCall =>
       gop'.threw =
         IF currentEnergy = 0 THEN NoEnergyError
         ELSE IF gop'.lessonId \notin LessonIds THEN "Lesson not found"
         ELSE IF \/ gop'.questionIndex < 0
                 \/ gop'.questionIndex >= Len(GameQuestions[gop'.lessonId])
           THEN "Question not found"
         ELSE ""]_vars

\* No energy, no such lesson and a negative index at once: the energy is
\* what is reported.
C31_Witness ==
  /\ gop.threw = NoEnergyError
  /\ currentEnergy = 0
  /\ gop.lessonId = "numbers-1"
  /\ gop.questionIndex = 0 - 1

\* Energy left, no such lesson and a negative index: the lesson is reported.
C31_WitnessLesson ==
  /\ gop.threw = "Lesson not found"
  /\ currentEnergy > 0
  /\ gop.lessonId = "numbers-1"
  /\ gop.questionIndex = 0 - 1

\* The catalog names of the achievements unlocked after the step and not
\* before it, in catalog order.
C32_NewlyUnlocked ==
  LET ids == SelectSeq([i \in DOMAIN Catalog |-> Catalog[i].id],
                       LAMBDA a : unlocked'[a] /\ ~unlocked[a])
  IN [k \in DOMAIN ids |->
        (CHOOSE c \in Range(Catalog) : c.id = ids[k]).name]

\* C32: the newAchievements of an answerQuestion call are exactly the names
\* of the achievements unlocked after the call and not before it; over any
\* sequence of calls each name is reported in at most one call.
C32_NewAchievementsAreNew ==
  /\ [][C26_Returned => gop'.newAchievements = C32_NewlyUnlocked]_vars
  /\ [](\A i, j \in DOMAIN reported : reported[i] = reported[j] => i = j)

\* The second lesson is completed by a call that reports nothing: First
\* Steps was reported when the first one was completed.
C32_Witness ==
  /\ reported = <<"First Steps">>
  /\ gop.threw = ""
  /\ gop.isCorrect
  /\ gop.newAchievements = <<>>
  /\ Len(completedLessons) = 2
  /\ gop.lessonId = "greetings-1"

\* The number of incorrect answers among those checked.
C33_Incorrect == Cardinality({ i \in DOMAIN answered : ~answered[i] })

C34_AnswersAgain ==
  /\ C26_Returned
  /\ gop'.isCorrect
  /\ questionResults[gop'.lessonId][gop'.questionIndex + 1]

C37_Rejected == result # NoResult /\ ~result.isCorrect /\ result.correctAnswer # Absent

\* The result of submitting the reported answer to the same question.
C37_Again == checkAnswer(question, result.correctAnswer[1], isFirstTry)

\* C37 as stated: for every question variant and every answer judged
\* incorrect, the correctAnswer of the result, submitted to the same
\* question, is judged correct.
C37_ReportedAnswerAccepted == C37_Rejected => C37_Again.isCorrect

\* The reported answer is one the question accepts: a choice without spaces
\* around it, any first translation, a configured answer that is, trimmed
\* and lower-cased, a lower-cased accepted entry.
C37_Acceptable ==
  CASE question.variant = "MultipleChoice" ->
         LET c == question.choices[question.correctIndex + 1] IN trim(c) = c
    [] question.variant = "Translation" -> TRUE
    [] question.variant = "FillInBlank" ->
         \E i \in DOMAIN question.accepted :
           toLowerCase(trim(question.correctAnswer)) = toLowerCase(question.accepted[i])

\* C37, amended: a translation question accepts the answer it reports; a
\* multiple choice question accepts it iff the correct choice has no spaces
\* around it; a fill-in-the-blank question reports its configured answer and
\* accepts it iff that answer, trimmed and lower-cased, is a lower-cased
\* accepted entry.
C37_ReportedAnswerAcceptedIfListed ==
  C37_Rejected =>
    /\ C37_Again.isCorrect <=> C37_Acceptable
    /\ question.variant = "FillInBlank" =>
         result.correctAnswer = Present(question.correctAnswer)
    /\ question.variant = "MultipleChoice" =>
         result.correctAnswer = Present(question.choices[question.correctIndex + 1])
    /\ question.variant = "Translation" =>
         result.correctAnswer = Present(question.accepted[1])

\* A fill-in-the-blank question configured with an answer that is not in
\* its accepted list rejects the answer it reports.
C37_Witness ==
  /\ C37_Rejected
  /\ question.variant = "FillInBlank"
  /\ question.correctAnswer = "went"
  /\ question.accepted = <<"Hello", "walked">>
  /\ answer = "helo"
  /\ ~C37_Again.isCorrect

\* A choice with a space before it is reported and not accepted.
C37_WitnessChoice ==
  /\ C37_Rejected
  /\ question.variant = "MultipleChoice"
  /\ result.correctAnswer = Present(" Hello")
  /\ ~C37_Again.isCorrect

\* A translation is reported and accepted.
C37_WitnessTranslation ==
  /\ C37_Rejected
  /\ question.variant = "Translation"
  /\ result.correctAnswer = Present(" Good Bye ")
  /\ C37_Again.isCorrect

\* The accepted list in the opposite order.
C38_Reversed(l) == [i \in DOMAIN l |-> l[Len(l) + 1 - i]]

\* The question of the last call with its accepted list reversed.
C38_Reordered == [question EXCEPT !.accepted = C38_Reversed(question.accepted)]

\* The result without the answer reported on rejection, which is the first
\* entry of the list by definition.
C38_Verdict(r) == <<r.isCorrect, r.points, r.feedback>>

\* C38: the result of TranslationQuestion.checkAnswer (isCorrect, points,
\* the minor typo note in the feedback) does not depend on the order of the
\* accepted list; an answer whose normalized form equals an accepted entry
\* is never flagged as a typo, wherever the entry is in the list.
C38_OrderOfAcceptedIrrelevant ==
  result # NoResult /\ question.variant = "Translation" =>
    /\ result.isCorrect =>
         C38_Verdict(checkAnswer(C38_Reordered, answer, isFirstTry))
           = C38_Verdict(result)
    /\ checkAnswer(C38_Reordered, answer, isFirstTry).isCorrect = result.isCorrect
    /\ (\E i \in DOMAIN question.accepted :
          normalizeText(answer) = normalizeText(question.accepted[i]))
         => result.feedback = "Correct!"

\* What does hold: acceptance and points are those of the reordered list.
C38_AcceptanceOrderFree ==
  result # NoResult /\ question.variant = "Translation" =>
    LET other == checkAnswer(C38_Reordered, answer, isFirstTry)
    IN other.isCorrect = result.isCorrect /\ other.points = result.points

\* The answer is accepted for the entry: exactly or as a typo.
C39_Accepted(n, e) == n = e \/ isFuzzyMatch(n, e)

\* The longer of the two lengths.
C39_Longest(n, e) == Max(Len(n), Len(e))

\* C39: a fuzzy match requires 20 * editDistance <= 3 * max(length): an
\* answer and an accepted entry whose normalized lengths are both at most 6
\* are accepted only on exact equality, and an answer at edit distance 1
\* from an accepted entry is accepted exactly when the longer of the two
\* has length at least 7.
C39_TypoNeedsLength ==
  result # NoResult /\ question.variant = "Translation" =>
    LET n == normalizeText(answer)
        entries == { normalizeText(question.accepted[i]) : i \in DOMAIN question.accepted }
    IN /\ \A e \in entries :
            /\ isFuzzyMatch(n, e) /\ n # e =>
                 20 * levenshteinDistance(n, e) <= 3 * C39_Longest(n, e)
            /\ C39_Longest(n, e) <= 6 => (C39_Accepted(n, e) <=> n = e)
            /\ levenshteinDistance(n, e) = 1 =>
                 (C39_Accepted(n, e) <=> C39_Longest(n, e) >= 7)
       /\ (\A e \in entries : C39_Longest(n, e) <= 6) =>
            (result.isCorrect <=> n \in entries)
       /\ \A e \in entries :
            levenshteinDistance(n, e) = 1 /\ C39_Longest(n, e) >= 7 =>
              result.isCorrect
       /\ (\A e \in entries :
             levenshteinDistance(n, e) = 1 /\ C39_Longest(n, e) < 7) =>
            ~result.isCorrect

\* One letter short of a word of seven letters: accepted.
C39_Witness ==
  /\ result.isCorrect
  /\ question.accepted = <<"goodbye">>
  /\ answer = "goodby"
  /\ levenshteinDistance("goodby", "goodbye") = 1

\* One letter more than a word of five letters, six in all: rejected.
C39_WitnessShort ==
  /\ result # NoResult
  /\ ~result.isCorrect
  /\ question.accepted = <<"Hello">>
  /\ answer = "helloo"
  /\ levenshteinDistance("helloo", "hello") = 1

====
